---- MODULE Spec2Model ----
(***************************************************************************)
(* ARDS cohort extraction (SCCM datathon, team 05): the four notebooks     *)
(*   cohort_optimized  src/code/mimic/01_cohort_definition_optimized.ipynb *)
(*   cohort_original   src/unnamed/part_000                                *)
(*   ards_optimized    src/code/mimic/02_ards_identification_optimized...  *)
(*   ards_berlin       src/unnamed/part_001                                *)
(* as state machines over the notebooks' dataframes.  A variable a cell    *)
(* deletes (del) keeps its last value here.  A dataframe is a     *)
(* sequence of records (rows in order); a Python set is a set; a frame     *)
(* produced by pivot_table/groupby has one row per key, in key order, and  *)
(* is kept as the set of its rows (pivot_table) or as the sequence of its   *)
(* rows in key order (groupby).  Timestamps are whole minutes.  Float   *)
(* columns are exact fractions <<numerator, denominator>>, NaN is <<0,0>>. *)
(* A nullable timestamp is <<t>>, NaT is <<>>.                             *)
(***************************************************************************)
EXTENDS Integers, Sequences, FiniteSets, TLC

VARIABLES
  nb,          \* the notebook being run
  pc,          \* the next step of the notebook, "done", or "raised"
  raised,      \* the exception that stopped the run, "" when none
  \* ---- input tables
  patients, admissions, icustays, chartevents, diagnoses, radiology, base_cohort,
  \* ---- 01_cohort_definition_optimized
  adult_icu_admissions, vent_data, peep_qualifying_admissions, vent_data_filtered,
  sf_ratios, final_qualifying_admissions, hf_admissions, pregnancy_admissions,
  final_cohort_admissions, final_cohort_admissions_w_reports, final_cohort,
  \* ---- part_000 (original cohort definition)
  admissions_with_icu, cohort_data, admissions_with_peep, cohort_data_peep,
  qualifying_admissions, cohort_with_criteria, cohort_with_radiology,
  \* ---- 02_ards_identification_optimized
  sf_data_60min, ards_onset_times, cohort_radiology, bilateral_by_admission,
  \* ---- part_001 (Berlin ARDS identification)
  bilateral_infiltrates_df, vent_df, vent_processed, ards_df, ards_cohort

inputs == <<patients, admissions, icustays, chartevents, diagnoses, radiology, base_cohort>>
cohortVars == <<adult_icu_admissions, vent_data, peep_qualifying_admissions,
                vent_data_filtered, final_qualifying_admissions, hf_admissions,
                pregnancy_admissions, final_cohort_admissions,
                final_cohort_admissions_w_reports>>
originalVars == <<admissions_with_icu, cohort_data, admissions_with_peep, cohort_data_peep,
                  qualifying_admissions, cohort_with_criteria, cohort_with_radiology>>
ardsVars == <<sf_data_60min, ards_onset_times, cohort_radiology, bilateral_by_admission>>
berlinVars == <<bilateral_infiltrates_df, vent_df, vent_processed, ards_df, ards_cohort>>
vars == <<nb, pc, raised, inputs, cohortVars, originalVars, ardsVars, berlinVars, sf_ratios,
          final_cohort>>

-----------------------------------------------------------------------------
(* Bounds of the explored inputs *)
MaxStays == 2
MaxDiagnoses == 1
MaxReports == 1

-----------------------------------------------------------------------------
(* Floats as exact fractions *)
NaN == <<0, 0>>
IsNaN(f) == f[2] = 0
Abs(x) == IF x < 0 THEN -x ELSE x
RECURSIVE GCD(_, _)
GCD(a, b) == IF b = 0 THEN a ELSE GCD(b, a % b)
Frac(n, d) ==
  LET g == GCD(Abs(n), Abs(d))
  IN  IF g = 0 THEN <<0, 0>>
      ELSE IF d < 0 THEN <<(-n) \div g, (-d) \div g>> ELSE <<n \div g, d \div g>>
F(k) == <<k, 1>>
FLt(f, g) == ~IsNaN(f) /\ ~IsNaN(g) /\ f[1] * g[2] < g[1] * f[2]
FLe(f, g) == ~IsNaN(f) /\ ~IsNaN(g) /\ f[1] * g[2] <= g[1] * f[2]
FGt(f, g) == FLt(g, f)
FGe(f, g) == FLe(g, f)
FDiv(f, g) == IF IsNaN(f) \/ IsNaN(g) THEN NaN ELSE Frac(f[1] * g[2], f[2] * g[1])
FAdd(f, g) == IF IsNaN(f) \/ IsNaN(g) THEN NaN
              ELSE Frac(f[1] * g[2] + g[1] * f[2], f[2] * g[2])
FSub(f, g) == IF IsNaN(f) \/ IsNaN(g) THEN NaN
              ELSE Frac(f[1] * g[2] - g[1] * f[2], f[2] * g[2])

\* a missing timestamp (NaT); every difference with it is NaN
NaT == -(2 ^ 20)

(* Dataframe helpers *)
RECURSIVE Flatten(_)
Flatten(ss) == IF ss = <<>> THEN <<>> ELSE Head(ss) \o Flatten(Tail(ss))
Range(s) == {s[i] : i \in DOMAIN s}
SeqsUpTo(S, n) == UNION {[1..k -> S] : k \in 0..n}
\* df[[cols]]
Project(df, cols) == [i \in DOMAIN df |-> [c \in cols |-> df[i][c]]]
\* df[name] = column, row by row
WithColumn(df, name, column) == [i \in DOMAIN df |-> df[i] @@ (name :> column[i])]
\* L.merge(R, on=key, how='inner'): left order, each left row with its matches
MergeInner(L, R, key) ==
  Flatten([i \in 1..Len(L) |->
    LET m == SelectSeq(R, LAMBDA r : r[key] = L[i][key])
    IN  [j \in 1..Len(m) |-> L[i] @@ m[j]]])
\* L.merge(R, on=key, how='left'): an unmatched left row gets the nulls `miss`
MergeLeft(L, R, key, miss) ==
  Flatten([i \in 1..Len(L) |->
    LET m == SelectSeq(R, LAMBDA r : r[key] = L[i][key])
    IN  IF m = <<>> THEN <<L[i] @@ miss>> ELSE [j \in 1..Len(m) |-> L[i] @@ m[j]]])
\* sensitivity variant for C14: the last non-null value of the group
LastValue(group) ==
  LET nn == SelectSeq(group, LAMBDA r : ~IsNaN(r.valuenum))
  IN  IF nn = <<>> THEN <<0, 0>> ELSE nn[Len(nn)].valuenum
\* aggfunc='first': the first non-null value, in row order, of a group
FirstValue(group) ==
  LET nn == SelectSeq(group, LAMBDA r : ~IsNaN(r.valuenum))
  IN  IF nn = <<>> THEN NaN ELSE nn[1].valuenum

-----------------------------------------------------------------------------
(* 01_cohort_definition_optimized *)
PEEP_ITEMIDS == {220339, 224700, 224699}
SPO2_ITEMIDS == {220277, 224696}
FIO2_ITEMIDS == {220210, 223835}
ALL_VENT_ITEMIDS == PEEP_ITEMIDS \cup SPO2_ITEMIDS \cup FIO2_ITEMIDS

\* sensitivity variant for C27: auto-PEEP (224699) is not classified
param_type_without_auto_peep(itemid) ==
  IF itemid \in FIO2_ITEMIDS THEN "fio2"
  ELSE IF itemid \in SPO2_ITEMIDS THEN "spo2"
  ELSE IF itemid \in {220339, 224700} THEN "peep"
  ELSE "unknown"

param_type(itemid) ==
  IF itemid \in FIO2_ITEMIDS THEN "fio2"
  ELSE IF itemid \in SPO2_ITEMIDS THEN "spo2"
  ELSE IF itemid \in PEEP_ITEMIDS THEN "peep"
  ELSE "unknown"

patient_data ==
  LET merged == MergeLeft(admissions,
                          Project(patients, {"subject_id", "anchor_age", "anchor_year"}),
                          "subject_id", [anchor_age |-> NaN, anchor_year |-> NaN])
  IN  WithColumn(merged, "age_at_admission",
                 [i \in DOMAIN merged |->
                    FAdd(merged[i].anchor_age,
                         FSub(F(merged[i].admit_year), merged[i].anchor_year))])

\* sensitivity variant for C22: an age of exactly 18 does not pass
adult_admissions_over_18 == SelectSeq(patient_data, LAMBDA r : FGt(r.age_at_admission, F(18)))

adult_admissions == SelectSeq(patient_data, LAMBDA r : FGe(r.age_at_admission, F(18)))

Cohort_Step1 ==
  /\ nb = "cohort_optimized" /\ pc = "step1"
  /\ adult_icu_admissions' =
       MergeInner(adult_admissions,
                  Project(icustays, {"hadm_id", "stay_id", "intime", "outtime"}),
                  "hadm_id")
  /\ pc' = "step2"
  /\ UNCHANGED <<nb, raised, inputs, originalVars, ardsVars, berlinVars, vent_data, peep_qualifying_admissions,
                 vent_data_filtered, sf_ratios, final_qualifying_admissions,
                 hf_admissions, pregnancy_admissions, final_cohort_admissions,
                 final_cohort_admissions_w_reports, final_cohort>>

\* Step 2: chartevents of the target stays and items, non-null, typed and timed
\* sensitivity variant for C23: a negative elapsed time clamped to zero
hours_from_icu_clamped(charttime, intime) ==
  IF intime = NaT THEN NaN
  ELSE IF charttime < intime THEN F(0) ELSE Frac(charttime - intime, 60)

hours_from_icu(charttime, intime) ==
  IF intime = NaT THEN NaN ELSE Frac(charttime - intime, 60)

Cohort_Step2 ==
  /\ nb = "cohort_optimized" /\ pc = "step2"
  /\ LET target_stay_ids == {r.stay_id : r \in Range(adult_icu_admissions)}
         kept == SelectSeq(chartevents, LAMBDA e : /\ e.stay_id \in target_stay_ids
                                                   /\ e.itemid \in ALL_VENT_ITEMIDS
                                                   /\ ~IsNaN(e.valuenum))
         typed == WithColumn(kept, "param_type",
                             [i \in DOMAIN kept |-> param_type(kept[i].itemid)])
         merged == MergeInner(typed,
                              Project(adult_icu_admissions, {"stay_id", "hadm_id", "intime"}),
                              "stay_id")
     IN  vent_data' =
           WithColumn(merged, "hours_from_icu",
                      [i \in DOMAIN merged |->
                         hours_from_icu(merged[i].charttime, merged[i].intime)])
  /\ pc' = "step3"
  /\ UNCHANGED <<nb, raised, inputs, originalVars, ardsVars, berlinVars, adult_icu_admissions, peep_qualifying_admissions,
                 vent_data_filtered, sf_ratios, final_qualifying_admissions,
                 hf_admissions, pregnancy_admissions, final_cohort_admissions,
                 final_cohort_admissions_w_reports, final_cohort>>

\* Step 3: PEEP >= 5 within the first 48 hours of the ICU stay
\* sensitivity variant for C2: the 48 h bound made exclusive
peep_window_exclusive(r) ==
  /\ r.param_type = "peep"
  /\ FGe(r.hours_from_icu, F(0))
  /\ FLt(r.hours_from_icu, F(48))
  /\ FGe(r.valuenum, F(5))
peep_window(r) ==
  /\ r.param_type = "peep"
  /\ FGe(r.hours_from_icu, F(0))
  /\ FLe(r.hours_from_icu, F(48))
  /\ FGe(r.valuenum, F(5))
\* sensitivity variant for C26: every PEEP reading qualifies
peep_any(df) == SelectSeq(df, LAMBDA r : r.param_type = "peep")
peep_qualifying(df) == SelectSeq(df, peep_window)

Cohort_Step3 ==
  /\ nb = "cohort_optimized" /\ pc = "step3"
  /\ LET q == {r.hadm_id : r \in Range(peep_qualifying(vent_data))}
     IN  /\ peep_qualifying_admissions' = q
         /\ vent_data_filtered' = SelectSeq(vent_data, LAMBDA r : r.hadm_id \in q)
  /\ pc' = "step4"
  /\ UNCHANGED <<nb, raised, inputs, originalVars, ardsVars, berlinVars, adult_icu_admissions, vent_data, sf_ratios,
                 final_qualifying_admissions, hf_admissions, pregnancy_admissions,
                 final_cohort_admissions, final_cohort_admissions_w_reports,
                 final_cohort>>

\* Step 4: S/F ratios by exact-timestamp pivot, S/F < 315
fio2_fraction(r) ==
  IF r.param_type = "fio2" /\ FGt(r.valuenum, F(1))
  THEN [r EXCEPT !.valuenum = FDiv(r.valuenum, F(100))]
  ELSE r

\* pivot_table(index=[hadm_id, charttime], columns=param_type, aggfunc='first')
sf_pivot(df) ==
  {[hadm_id |-> k[1], charttime |-> k[2],
    spo2 |-> FirstValue(SelectSeq(df, LAMBDA r : /\ r.hadm_id = k[1]
                                                 /\ r.charttime = k[2]
                                                 /\ r.param_type = "spo2")),
    fio2 |-> FirstValue(SelectSeq(df, LAMBDA r : /\ r.hadm_id = k[1]
                                                 /\ r.charttime = k[2]
                                                 /\ r.param_type = "fio2"))]
   : k \in {<<r.hadm_id, r.charttime>> : r \in Range(df)}}

\* sensitivity variant for C3: a zero FiO2 is let through
sf_ratio_rows_allow_zero(pivot) ==
  {p @@ [sf_ratio |-> FDiv(p.spo2, p.fio2)]
   : p \in {x \in pivot : ~IsNaN(x.spo2) /\ ~IsNaN(x.fio2) /\ FGe(x.fio2, F(0))}}
\* dropna(subset=[spo2, fio2]); fio2 > 0; sf_ratio = spo2 / fio2
sf_ratio_rows(pivot) ==
  {p @@ [sf_ratio |-> FDiv(p.spo2, p.fio2)]
   : p \in {x \in pivot : ~IsNaN(x.spo2) /\ ~IsNaN(x.fio2) /\ FGt(x.fio2, F(0))}}

\* sensitivity variant for C17: the threshold is included
low_sf_ratios_inclusive(ratios) == {r \in ratios : FLe(r.sf_ratio, F(315))}
\* sf_ratios[sf_ratios['sf_ratio'] < 315]
low_sf_ratios(ratios) == {r \in ratios : FLt(r.sf_ratio, F(315))}

Cohort_Step4 ==
  /\ nb = "cohort_optimized" /\ pc = "step4"
  /\ LET spo2_fio2_data == SelectSeq(vent_data_filtered,
                                  LAMBDA r : r.param_type \in {"spo2", "fio2"})
         converted == [i \in DOMAIN spo2_fio2_data |-> fio2_fraction(spo2_fio2_data[i])]
         ratios == sf_ratio_rows(sf_pivot(converted))
         sf_qualifying_admissions == {r.hadm_id : r \in low_sf_ratios(ratios)}
     IN  IF Len(spo2_fio2_data) > 0
         THEN /\ sf_ratios' = ratios
              /\ final_qualifying_admissions' =
                   peep_qualifying_admissions \cap sf_qualifying_admissions
         ELSE /\ sf_ratios' = {}
              /\ final_qualifying_admissions' = {}
  /\ pc' = "step5"
  /\ UNCHANGED <<nb, raised, inputs, originalVars, ardsVars, berlinVars, adult_icu_admissions, vent_data,
                 peep_qualifying_admissions, vent_data_filtered, hf_admissions,
                 pregnancy_admissions, final_cohort_admissions,
                 final_cohort_admissions_w_reports, final_cohort>>

\* Step 5: heart-failure and pregnancy exclusions.  An ICD code is the
\* sequence of its characters.
Digits == {"0", "1", "2", "3", "4", "5", "6", "7", "8", "9"}
startswith(code, prefix) ==
  Len(code) >= Len(prefix) /\ SubSeq(code, 1, Len(prefix)) = prefix
hf_codes == {<<"4", "2", "8", d>> : d \in Digits} \cup {<<"I", "5", "0">>}
              \cup {<<"I", "5", "0", d>> : d \in Digits}
pregnancy_icd9 == {<<"6", a, b>> : a \in {"3", "4", "5", "6", "7"}, b \in Digits}
\* sensitivity variant for C11: heart failure matched on the three digits 428
hf_mask_three_digits(code) == startswith(code, <<"4", "2", "8">>) \/ startswith(code, <<"I", "5", "0">>)
hf_mask(code) == \E p \in hf_codes : startswith(code, p)
pregnancy_mask(code) ==
  \/ SubSeq(code, 1, IF Len(code) < 3 THEN Len(code) ELSE 3) \in pregnancy_icd9
  \/ startswith(code, <<"O">>)

\* sensitivity variant for C30: the heart-failure exclusion is dropped
excluded_pregnancy_only(hf, pr) == pr
\* sensitivity variant for C1: the pregnancy exclusion is dropped
excluded_hf_only(hf, pr) == hf
\* sensitivity variant for C13: nothing is excluded
excluded_nothing(hf, pr) == {}
excluded_admissions(hf, pr) == hf \cup pr

Cohort_Step5 ==
  /\ nb = "cohort_optimized" /\ pc = "step5"
  /\ IF final_qualifying_admissions # {}
     THEN LET hf == {d.hadm_id : d \in {x \in Range(diagnoses) : hf_mask(x.icd_code)}}
              pr == {d.hadm_id : d \in {x \in Range(diagnoses) : pregnancy_mask(x.icd_code)}}
          IN  /\ hf_admissions' = hf
              /\ pregnancy_admissions' = pr
              /\ final_cohort_admissions' =
                   final_qualifying_admissions \ excluded_admissions(hf, pr)
     ELSE /\ final_cohort_admissions' = {}
          /\ UNCHANGED <<hf_admissions, pregnancy_admissions>>
  /\ pc' = "step6"
  /\ UNCHANGED <<nb, raised, inputs, originalVars, ardsVars, berlinVars, adult_icu_admissions, vent_data,
                 peep_qualifying_admissions, vent_data_filtered, sf_ratios,
                 final_qualifying_admissions, final_cohort_admissions_w_reports,
                 final_cohort>>

\* Step 5 (second): at least one radiology report.  hadm_id 0 is a missing id.
NoId == 0
Cohort_Step6 ==
  /\ nb = "cohort_optimized" /\ pc = "step6"
  /\ IF final_cohort_admissions # {}
     THEN LET radiology_admissions == {r.hadm_id : r \in Range(radiology)} \ {NoId}
          IN  final_cohort_admissions_w_reports' =
                final_cohort_admissions \cap radiology_admissions
     ELSE final_cohort_admissions_w_reports' = {}
  /\ pc' = "step7"
  /\ UNCHANGED <<nb, raised, inputs, originalVars, ardsVars, berlinVars, adult_icu_admissions, vent_data,
                 peep_qualifying_admissions, vent_data_filtered, sf_ratios,
                 final_qualifying_admissions, hf_admissions, pregnancy_admissions,
                 final_cohort_admissions, final_cohort>>

\* Step 7: one output row per ICU stay of a final admission
icu_los_days(r) ==
  IF r.intime = NaT \/ r.outtime = NaT THEN NaN ELSE Frac(r.outtime - r.intime, 24 * 60)

Cohort_Step7 ==
  /\ nb = "cohort_optimized" /\ pc = "step7"
  /\ IF final_cohort_admissions_w_reports # {}
     THEN LET kept == SelectSeq(adult_icu_admissions,
                             LAMBDA r : r.hadm_id \in final_cohort_admissions_w_reports)
          IN  final_cohort' =
                [i \in DOMAIN kept |->
                   kept[i] @@ [icu_los_days |-> icu_los_days(kept[i]),
                               excluded_hf |-> kept[i].hadm_id \in hf_admissions,
                               excluded_pregnancy |->
                                 kept[i].hadm_id \in pregnancy_admissions]]
     ELSE final_cohort' = <<>>
  /\ pc' = "done"
  /\ UNCHANGED <<nb, raised, inputs, originalVars, ardsVars, berlinVars, cohortVars, sf_ratios>>

NextCohort ==
  \/ Cohort_Step1 \/ Cohort_Step2 \/ Cohort_Step3 \/ Cohort_Step4
  \/ Cohort_Step5 \/ Cohort_Step6 \/ Cohort_Step7

-----------------------------------------------------------------------------
(* part_000: the original cohort definition *)
peep_itemids == {220339, 224700, 224699}
spo2_itemids == {220277, 224696}
fio2_itemids == {220210, 223835}
all_itemids == peep_itemids \cup spo2_itemids \cup fio2_itemids

original_param_type(itemid) ==
  IF itemid \in fio2_itemids THEN "fio2"
  ELSE IF itemid \in spo2_itemids THEN "spo2"
  ELSE IF itemid \in peep_itemids THEN "peep"
  ELSE "unknown"

\* drop_duplicates([column]): the first row of each value is kept
RECURSIVE drop_duplicates(_, _)
drop_duplicates(df, column) ==
  IF df = <<>> THEN <<>>
  ELSE LET front == SubSeq(df, 1, Len(df) - 1)
           last == df[Len(df)]
       IN  IF \E i \in DOMAIN front : front[i][column] = last[column]
           THEN drop_duplicates(front, column)
           ELSE Append(drop_duplicates(front, column), last)

Original_Step1 ==
  /\ nb = "cohort_original" /\ pc = "step1"
  /\ admissions_with_icu' =
       MergeInner(adult_admissions,
                  drop_duplicates(
                    Project(icustays, {"hadm_id", "stay_id", "intime", "outtime"}),
                    "hadm_id"),
                  "hadm_id")
  /\ pc' = "step2"
  /\ UNCHANGED <<nb, raised, inputs, cohortVars, ardsVars, berlinVars, sf_ratios, final_cohort, cohort_data,
                 admissions_with_peep, cohort_data_peep, qualifying_admissions,
                 cohort_with_criteria, cohort_with_radiology>>

peep_first_48h(df) ==
  SelectSeq(df, LAMBDA r : /\ r.param_type = "peep"
                           /\ FGe(r.hours_from_icu, F(0))
                           /\ FLe(r.hours_from_icu, F(48))
                           /\ FGe(r.valuenum, F(5)))

Original_Step2 ==
  /\ nb = "cohort_original" /\ pc = "step2"
  /\ LET hadms == {r.hadm_id : r \in Range(admissions_with_icu)}
         cohort_icustays == SelectSeq(icustays, LAMBDA r : r.hadm_id \in hadms)
         cohort_stay_ids == {r.stay_id : r \in Range(cohort_icustays)}
         kept == SelectSeq(chartevents, LAMBDA e : /\ e.stay_id \in cohort_stay_ids
                                                   /\ e.itemid \in all_itemids
                                                   /\ ~IsNaN(e.valuenum))
         typed == WithColumn(kept, "param_type",
                             [i \in DOMAIN kept |-> original_param_type(kept[i].itemid)])
         merged == MergeInner(typed,
                              Project(cohort_icustays, {"stay_id", "hadm_id", "intime"}),
                              "stay_id")
         timed == WithColumn(merged, "hours_from_icu",
                             [i \in DOMAIN merged |->
                                hours_from_icu(merged[i].charttime, merged[i].intime)])
         with_peep == {r.hadm_id : r \in Range(peep_first_48h(timed))}
     IN  /\ cohort_data' = timed
         /\ admissions_with_peep' = with_peep
         /\ cohort_data_peep' = SelectSeq(timed, LAMBDA r : r.hadm_id \in with_peep)
  /\ pc' = "step3"
  /\ UNCHANGED <<nb, raised, inputs, cohortVars, ardsVars, berlinVars, sf_ratios, final_cohort,
                 admissions_with_icu, qualifying_admissions, cohort_with_criteria,
                 cohort_with_radiology>>

\* fio2_data.loc[valuenum > 1, 'valuenum'] /= 100
original_fio2_fraction(r) ==
  IF FGt(r.valuenum, F(1)) THEN [r EXCEPT !.valuenum = FDiv(r.valuenum, F(100))] ELSE r

\* sort_values(['hadm_id', 'charttime']), rows with equal keys keep their order
SortsBefore(df, j, i) ==
  \/ df[j].hadm_id < df[i].hadm_id
  \/ df[j].hadm_id = df[i].hadm_id /\ df[j].charttime < df[i].charttime
  \/ df[j].hadm_id = df[i].hadm_id /\ df[j].charttime = df[i].charttime /\ j < i
sort_values(df) ==
  [k \in DOMAIN df |->
     df[CHOOSE i \in DOMAIN df : Cardinality({j \in DOMAIN df : SortsBefore(df, j, i)}) = k - 1]]

\* merge_asof(on='charttime', by='hadm_id', tolerance=2 h, direction='nearest')
tolerance == 120
\* merge_asof refuses a frame whose `on` column is not sorted over the whole frame
keys_sorted(df) == \A i \in 1..(Len(df) - 1) : df[i].charttime <= df[i + 1].charttime
\* last right row of the admission at or before t, 0 when none within tolerance
asof_backward(l, right) ==
  LET c == {j \in DOMAIN right : /\ right[j].hadm_id = l.hadm_id
                                 /\ right[j].charttime <= l.charttime}
      b == IF c = {} THEN 0 ELSE CHOOSE j \in c : \A k \in c : k <= j
  IN  IF b # 0 /\ l.charttime - right[b].charttime <= tolerance THEN b ELSE 0
\* first right row of the admission at or after t, 0 when none within tolerance
asof_forward(l, right) ==
  LET c == {j \in DOMAIN right : /\ right[j].hadm_id = l.hadm_id
                                 /\ right[j].charttime >= l.charttime}
      f == IF c = {} THEN 0 ELSE CHOOSE j \in c : \A k \in c : j <= k
  IN  IF f # 0 /\ right[f].charttime - l.charttime <= tolerance THEN f ELSE 0
asof_nearest(l, right) ==
  LET b == asof_backward(l, right)
      f == asof_forward(l, right)
  IN  IF b # 0 /\ f # 0
      THEN IF l.charttime - right[b].charttime <= right[f].charttime - l.charttime
           THEN b ELSE f
      ELSE IF b # 0 THEN b ELSE f
merge_asof(left, right) ==
  [i \in DOMAIN left |->
     LET k == asof_nearest(left[i], right)
     IN  [hadm_id |-> left[i].hadm_id, charttime |-> left[i].charttime,
          valuenum_spo2 |-> left[i].valuenum,
          valuenum_fio2 |-> IF k = 0 THEN NaN ELSE right[k].valuenum]]

\* dropna(subset=[valuenum_fio2]); valuenum_fio2 > 0; sf_ratio
original_sf_ratios(merged) ==
  LET kept == SelectSeq(merged, LAMBDA r : ~IsNaN(r.valuenum_fio2)
                                           /\ FGt(r.valuenum_fio2, F(0)))
  IN  WithColumn(kept, "sf_ratio",
                 [i \in DOMAIN kept |-> FDiv(kept[i].valuenum_spo2, kept[i].valuenum_fio2)])

\* The S/F cell.  When merge_asof raises, nothing after it in the cell runs and
\* cohort_with_criteria is never assigned, so every later cell fails too: the
\* run is over ("raised").
Original_Step3 ==
  /\ nb = "cohort_original" /\ pc = "step3"
  /\ LET spo2 == SelectSeq(cohort_data_peep, LAMBDA r : r.param_type = "spo2")
         fio2 == SelectSeq(cohort_data_peep, LAMBDA r : r.param_type = "fio2")
         spo2_data == sort_values(spo2)
         fio2_data == sort_values([i \in DOMAIN fio2 |-> original_fio2_fraction(fio2[i])])
         ratios == original_sf_ratios(merge_asof(spo2_data, fio2_data))
         admissions_with_low_sf ==
           {r.hadm_id : r \in {x \in Range(ratios) : FLt(x.sf_ratio, F(315))}}
         qualifying == admissions_with_peep \cap admissions_with_low_sf
     IN  IF Len(spo2) > 0 /\ Len(fio2) > 0
         THEN IF keys_sorted(spo2_data) /\ keys_sorted(fio2_data)
              THEN /\ sf_ratios' = ratios
                   /\ qualifying_admissions' = qualifying
                   /\ cohort_with_criteria' =
                        SelectSeq(admissions_with_icu, LAMBDA r : r.hadm_id \in qualifying)
                   /\ pc' = "step4" /\ UNCHANGED raised
              ELSE /\ raised' = "ValueError" /\ pc' = "raised"
                   /\ UNCHANGED <<sf_ratios, qualifying_admissions, cohort_with_criteria>>
         ELSE /\ cohort_with_criteria' = <<>>
              /\ pc' = "step4"
              /\ UNCHANGED <<raised, sf_ratios, qualifying_admissions>>
  /\ UNCHANGED <<nb, inputs, cohortVars, ardsVars, berlinVars, final_cohort,
                 admissions_with_icu, cohort_data,
                 admissions_with_peep, cohort_data_peep, cohort_with_radiology>>

Original_Step4 ==
  /\ nb = "cohort_original" /\ pc = "step4"
  /\ LET admissions_with_radiology == {r.hadm_id : r \in Range(radiology)} \ {NoId}
     IN  IF Len(cohort_with_criteria) > 0
         THEN cohort_with_radiology' =
                SelectSeq(cohort_with_criteria,
                          LAMBDA r : r.hadm_id \in admissions_with_radiology)
         ELSE cohort_with_radiology' = <<>>
  /\ pc' = "stale"
  /\ UNCHANGED <<nb, raised, inputs, cohortVars, ardsVars, berlinVars, sf_ratios, final_cohort,
                 admissions_with_icu, cohort_data, admissions_with_peep, cohort_data_peep,
                 qualifying_admissions, cohort_with_criteria>>

\* The leftover "Load radiology reports" cell reads cohort_with_sf, which no
\* cell assigns: NameError, no cohort variable changes, the next cell can run.
Original_StaleCell ==
  /\ nb = "cohort_original" /\ pc = "stale"
  /\ raised' = "NameError"
  /\ pc' = "step5"
  /\ UNCHANGED <<nb, inputs, cohortVars, originalVars, ardsVars, berlinVars, sf_ratios,
                 final_cohort>>

hf_icd9_codes == {<<"4", "2", "8", d>> : d \in Digits}
hf_icd10_codes == {<<"I", "5", "0", d>> : d \in Digits} \cup {<<"I", "5", "0">>}
pregnancy_icd9_prefixes == {<<"6", a, b>> : a \in {"3", "4", "5", "6", "7"}, b \in Digits}
hf_diagnoses(code) ==
  \/ \E p \in hf_icd9_codes : startswith(code, p)
  \/ \E p \in hf_icd10_codes : startswith(code, p)
pregnancy_diagnoses(code) ==
  \/ SubSeq(code, 1, IF Len(code) < 3 THEN Len(code) ELSE 3) \in pregnancy_icd9_prefixes
  \/ startswith(code, <<"O">>)

Original_Step5 ==
  /\ nb = "cohort_original" /\ pc = "step5"
  /\ LET hf_hadm_ids == {d.hadm_id : d \in {x \in Range(diagnoses) : hf_diagnoses(x.icd_code)}}
         pregnant_hadm_ids ==
           {d.hadm_id : d \in {x \in Range(diagnoses) : pregnancy_diagnoses(x.icd_code)}}
         flagged == [i \in DOMAIN cohort_with_radiology |->
                       cohort_with_radiology[i] @@
                         [has_heart_failure |-> cohort_with_radiology[i].hadm_id \in hf_hadm_ids,
                          is_pregnant |-> cohort_with_radiology[i].hadm_id \in pregnant_hadm_ids]]
     IN  IF Len(cohort_with_radiology) > 0
         THEN /\ cohort_with_radiology' = flagged
              /\ final_cohort' = SelectSeq(flagged, LAMBDA r : ~r.has_heart_failure
                                                              /\ ~r.is_pregnant)
         ELSE /\ final_cohort' = <<>>
              /\ UNCHANGED cohort_with_radiology
  /\ pc' = "done"
  /\ UNCHANGED <<nb, raised, inputs, cohortVars, ardsVars, berlinVars, sf_ratios, admissions_with_icu,
                 cohort_data, admissions_with_peep, cohort_data_peep,
                 qualifying_admissions, cohort_with_criteria>>

NextOriginal ==
  \/ Original_Step1 \/ Original_Step2 \/ Original_Step3 \/ Original_Step4
  \/ Original_StaleCell \/ Original_Step5

-----------------------------------------------------------------------------
(* 02_ards_identification_optimized *)
\* SF_ITEMIDS in the notebook (a name cannot start with SF_ here)
ITEMIDS_SF == SPO2_ITEMIDS \cup FIO2_ITEMIDS

sf_param_type(itemid) ==
  IF itemid \in FIO2_ITEMIDS THEN "fio2"
  ELSE IF itemid \in SPO2_ITEMIDS THEN "spo2"
  ELSE "unknown"

minutes_from_icu(charttime, intime) ==
  IF intime = NaT THEN NaN ELSE F(charttime - intime)

\* Step 2, first cells: S/F readings of the cohort's stays in the first 60 minutes
Ards_Step2 ==
  /\ nb = "ards_optimized" /\ pc = "step2"
  /\ LET target_stay_ids == {r.stay_id : r \in Range(base_cohort)}
         kept == SelectSeq(chartevents, LAMBDA e : /\ e.stay_id \in target_stay_ids
                                                   /\ e.itemid \in ITEMIDS_SF
                                                   /\ ~IsNaN(e.valuenum))
         typed == WithColumn(kept, "param_type",
                             [i \in DOMAIN kept |-> sf_param_type(kept[i].itemid)])
         merged == MergeInner(typed, Project(base_cohort, {"stay_id", "hadm_id", "intime"}),
                              "stay_id")
         sf_data == WithColumn(merged, "minutes_from_icu",
                               [i \in DOMAIN merged |->
                                  minutes_from_icu(merged[i].charttime, merged[i].intime)])
     IN  sf_data_60min' = SelectSeq(sf_data, LAMBDA r : /\ FGe(r.minutes_from_icu, F(0))
                                                        /\ FLe(r.minutes_from_icu, F(60)))
  /\ pc' = "step2_ratios"
  /\ UNCHANGED <<nb, raised, inputs, cohortVars, originalVars, berlinVars, sf_ratios, final_cohort,
                 ards_onset_times, cohort_radiology, bilateral_by_admission>>

\* FiO2 above 1 is a percentage
onset_fio2_fraction(r) ==
  IF r.param_type = "fio2" /\ FGt(r.valuenum, F(1))
  THEN [r EXCEPT !.valuenum = FDiv(r.valuenum, F(100))]
  ELSE r

\* sensitivity variant for C5: a timestamp with FiO2 alone still gives a row
onset_sf_ratio_rows_unpaired(pivot) ==
  {p @@ [sf_ratio |-> FDiv(p.spo2, p.fio2)]
   : p \in {x \in pivot : ~IsNaN(x.fio2) /\ FGt(x.fio2, F(0))}}
\* dropna(subset=[spo2, fio2]); fio2 > 0; sf_ratio = spo2 / fio2
onset_sf_ratio_rows(pivot) ==
  {p @@ [sf_ratio |-> FDiv(p.spo2, p.fio2)]
   : p \in {x \in pivot : ~IsNaN(x.spo2) /\ ~IsNaN(x.fio2) /\ FGt(x.fio2, F(0))}}

\* pivot_table(index=[stay_id, hadm_id, charttime], columns=param_type, aggfunc='first')
stay_sf_pivot(df) ==
  {[stay_id |-> k[1], hadm_id |-> k[2], charttime |-> k[3],
    spo2 |-> FirstValue(SelectSeq(df, LAMBDA r : /\ r.stay_id = k[1] /\ r.hadm_id = k[2]
                                                 /\ r.charttime = k[3]
                                                 /\ r.param_type = "spo2")),
    fio2 |-> FirstValue(SelectSeq(df, LAMBDA r : /\ r.stay_id = k[1] /\ r.hadm_id = k[2]
                                                 /\ r.charttime = k[3]
                                                 /\ r.param_type = "fio2"))]
   : k \in {<<r.stay_id, r.hadm_id, r.charttime>> : r \in Range(df)}}

\* sf_ratios.merge(base_cohort[[stay_id, intime]], on=stay_id, how='left'), minutes
with_icu_minutes(ratios) ==
  UNION {{r @@ [intime |-> b.intime,
                minutes_from_icu |-> minutes_from_icu(r.charttime, b.intime)]
          : b \in {x \in Range(base_cohort) : x.stay_id = r.stay_id}}
         : r \in ratios}

\* Step 2, last cell: S/F ratios by exact-timestamp pivot
Ards_Step2Ratios ==
  /\ nb = "ards_optimized" /\ pc = "step2_ratios"
  /\ LET spo2_data == SelectSeq(sf_data_60min, LAMBDA r : r.param_type = "spo2")
         fio2_data == SelectSeq(sf_data_60min, LAMBDA r : r.param_type = "fio2")
         converted == [i \in DOMAIN sf_data_60min |-> onset_fio2_fraction(sf_data_60min[i])]
     IN  IF Len(spo2_data) > 0 /\ Len(fio2_data) > 0
         THEN /\ sf_data_60min' = converted
              /\ sf_ratios' = with_icu_minutes(onset_sf_ratio_rows(stay_sf_pivot(converted)))
         ELSE /\ sf_ratios' = {}
              /\ UNCHANGED sf_data_60min
  /\ pc' = "step3"
  /\ UNCHANGED <<nb, raised, inputs, cohortVars, originalVars, berlinVars, final_cohort,
                 ards_onset_times, cohort_radiology, bilateral_by_admission>>

\* the values of a set of integers in increasing order (groupby sorts its keys)
SortedSeq(S) ==
  [k \in 1..Cardinality(S) |-> CHOOSE x \in S : Cardinality({y \in S : y < x}) = k - 1]
Min(S) == CHOOSE x \in S : \A y \in S : x <= y
FMin(S) == CHOOSE f \in S : \A g \in S : FLe(f, g)

\* groupby('hadm_id').agg({charttime: min, sf_ratio: min, minutes_from_icu: min})
onset_by_admission(criteria) ==
  LET keys == SortedSeq({r.hadm_id : r \in criteria})
  IN  [k \in DOMAIN keys |->
         LET g == {r \in criteria : r.hadm_id = keys[k]}
         IN  [hadm_id |-> keys[k],
              ards_onset_time |-> <<Min({r.charttime : r \in g})>>,
              ards_onset_sf_ratio |-> FMin({r.sf_ratio : r \in g}),
              ards_onset_minutes_from_icu |-> FMin({r.minutes_from_icu : r \in g})]]

\* Step 3.  The closing `del sf_ratios, ards_sf_criteria` raises NameError when
\* no ratio was computed, because ards_sf_criteria was never assigned; the
\* onset table is assigned by then and the next cell can run.
Ards_Step3 ==
  /\ nb = "ards_optimized" /\ pc = "step3"
  /\ LET ards_sf_criteria == {r \in sf_ratios : FLe(r.sf_ratio, F(315))}
     IN  IF sf_ratios # {}
         THEN /\ ards_onset_times' = IF ards_sf_criteria # {}
                                     THEN onset_by_admission(ards_sf_criteria)
                                     ELSE <<>>
              /\ UNCHANGED raised
         ELSE /\ ards_onset_times' = <<>>
              /\ raised' = "NameError"
  /\ pc' = "step4"
  /\ UNCHANGED <<nb, inputs, cohortVars, originalVars, berlinVars, sf_ratios, final_cohort,
                 sf_data_60min, cohort_radiology, bilateral_by_admission>>

\* Step 4: bilateral infiltrates.  The classifier is a set of regular
\* expressions over the lowercased text; here a report carries one of a few
\* texts and the classifier is the set of those that match a pattern
\* ("" is a missing text, which fillna('') makes match nothing).
ReportTexts == {"Bilateral opacities.", "Left opacity. Right consolidation.", "ARDS",
                "No acute cardiopulmonary process.", ""}
detect_bilateral_infiltrates_vectorized(text) ==
  text \in {"Bilateral opacities.", "Left opacity. Right consolidation.", "ARDS"}

\* sensitivity variant for C18: one row per report instead of one per admission
one_row_per_report(reports) ==
  [i \in DOMAIN reports |->
     [hadm_id |-> reports[i].hadm_id,
      has_bilateral_infiltrates |-> <<reports[i].bilateral_infiltrates>>,
      first_radiology_time |-> <<reports[i].charttime>>]]
\* groupby('hadm_id').agg({bilateral_infiltrates: any, charttime: min})
any_report_first_time(reports) ==
  LET keys == SortedSeq({r.hadm_id : r \in Range(reports)})
  IN  [k \in DOMAIN keys |->
         LET g == {r \in Range(reports) : r.hadm_id = keys[k]}
         IN  [hadm_id |-> keys[k],
              has_bilateral_infiltrates |-> <<\E r \in g : r.bilateral_infiltrates>>,
              first_radiology_time |-> <<Min({r.charttime : r \in g})>>]]

Ards_Step4 ==
  /\ nb = "ards_optimized" /\ pc = "step4"
  /\ LET cohort_hadm_ids == {r.hadm_id : r \in Range(base_cohort)}
         kept == SelectSeq(radiology, LAMBDA r : r.hadm_id \in cohort_hadm_ids)
         flagged == WithColumn(kept, "bilateral_infiltrates",
                               [i \in DOMAIN kept |->
                                  detect_bilateral_infiltrates_vectorized(kept[i].text)])
     IN  /\ cohort_radiology' = flagged
         /\ bilateral_by_admission' = any_report_first_time(flagged)
  /\ pc' = "step5"
  /\ UNCHANGED <<nb, raised, inputs, cohortVars, originalVars, berlinVars, sf_ratios, final_cohort,
                 sf_data_60min, ards_onset_times>>

\* sensitivity variant for C19: a missing flag filled with True
fillna_True(v) == IF v = <<>> THEN TRUE ELSE v[1]

\* fillna(False) on a nullable flag
fillna_False(v) == IF v = <<>> THEN FALSE ELSE v[1]

\* Step 5, first cell: the base cohort with onset and infiltrates merged in
Ards_Step5 ==
  /\ nb = "ards_optimized" /\ pc = "step5"
  /\ LET no_onset == [ards_onset_time |-> <<>>, ards_onset_sf_ratio |-> NaN,
                      ards_onset_minutes_from_icu |-> NaN]
         no_report == [has_bilateral_infiltrates |-> <<>>, first_radiology_time |-> <<>>]
         with_onset ==
           IF Len(ards_onset_times) > 0
           THEN MergeLeft(base_cohort, ards_onset_times, "hadm_id", no_onset)
           ELSE [i \in DOMAIN base_cohort |-> base_cohort[i] @@ no_onset]
         with_reports ==
           IF Len(bilateral_by_admission) > 0
           THEN MergeLeft(with_onset, bilateral_by_admission, "hadm_id", no_report)
           ELSE [i \in DOMAIN with_onset |->
                   with_onset[i] @@ [has_bilateral_infiltrates |-> <<FALSE>>,
                                     first_radiology_time |-> <<>>]]
     IN  final_cohort' =
           [i \in DOMAIN with_reports |->
              [with_reports[i] EXCEPT !.has_bilateral_infiltrates = fillna_False(@)]]
  /\ pc' = "step5_flags"
  /\ UNCHANGED <<nb, raised, inputs, cohortVars, originalVars, berlinVars, ardsVars, sf_ratios>>

\* sensitivity variant for C20: the severe band ends below 150
ards_severity_below_150(has_onset, ratio) ==
  IF has_onset /\ FLt(ratio, F(150)) THEN "severe"
  ELSE IF has_onset /\ FLe(ratio, F(235)) /\ FGt(ratio, F(150)) THEN "moderate"
  ELSE IF has_onset /\ FGt(ratio, F(235)) THEN "mild"
  ELSE "none"

\* the severity masks, applied to one row
ards_severity(has_onset, ratio) ==
  IF has_onset /\ FLe(ratio, F(150)) THEN "severe"
  ELSE IF has_onset /\ FLe(ratio, F(235)) /\ FGt(ratio, F(150)) THEN "moderate"
  ELSE IF has_onset /\ FGt(ratio, F(235)) THEN "mild"
  ELSE "none"

\* Step 5, second cell: the ARDS flags
Ards_Step5Flags ==
  /\ nb = "ards_optimized" /\ pc = "step5_flags"
  /\ final_cohort' =
       [i \in DOMAIN final_cohort |->
          LET r == final_cohort[i]
              has_ards_onset == r.ards_onset_time # <<>>
          IN  r @@ [has_ards_onset |-> has_ards_onset,
                    has_ards |-> has_ards_onset /\ r.has_bilateral_infiltrates,
                    hours_icu_to_ards_onset |->
                      IF has_ards_onset /\ r.intime # NaT
                      THEN Frac(r.ards_onset_time[1] - r.intime, 60)
                      ELSE NaN,
                    ards_severity |-> ards_severity(has_ards_onset, r.ards_onset_sf_ratio)]]
  /\ pc' = "done"
  /\ UNCHANGED <<nb, raised, inputs, cohortVars, originalVars, berlinVars, ardsVars, sf_ratios>>

NextArds ==
  \/ Ards_Step2 \/ Ards_Step2Ratios \/ Ards_Step3 \/ Ards_Step4 \/ Ards_Step5
  \/ Ards_Step5Flags

-----------------------------------------------------------------------------
(* part_001: ARDS identification by the Berlin definition *)
\* the same patterns as in the optimized notebook, applied report by report
detect_bilateral_infiltrates(text) ==
  text \in {"Bilateral opacities.", "Left opacity. Right consolidation.", "ARDS"}

\* cohort_radiology[bilateral_infiltrates].groupby('hadm_id').agg({charttime: min})
first_positive_report(reports) ==
  LET positive == {r \in Range(reports) : r.bilateral_infiltrates}
      keys == SortedSeq({r.hadm_id : r \in positive})
  IN  [k \in DOMAIN keys |->
         [hadm_id |-> keys[k],
          bilateral_infiltrates_time |->
            Min({r.charttime : r \in {x \in positive : x.hadm_id = keys[k]}})]]

Berlin_Radiology ==
  /\ nb = "ards_berlin" /\ pc = "radiology"
  /\ LET cohort_hadm_ids == {r.hadm_id : r \in Range(base_cohort)}
         kept == SelectSeq(radiology, LAMBDA r : r.hadm_id \in cohort_hadm_ids)
         flagged == WithColumn(kept, "bilateral_infiltrates",
                               [i \in DOMAIN kept |->
                                  detect_bilateral_infiltrates(kept[i].text)])
     IN  /\ cohort_radiology' = flagged
         /\ bilateral_infiltrates_df' = first_positive_report(flagged)
  /\ pc' = "extract"
  /\ UNCHANGED <<nb, raised, inputs, cohortVars, originalVars, sf_ratios, final_cohort,
                 sf_data_60min, ards_onset_times, bilateral_by_admission, vent_df,
                 vent_processed, ards_df, ards_cohort>>

ventilation_itemids ==
  [peep |-> {220339, 224700}, fio2_percent |-> {220210},
   fio2_fraction |-> {223835, 224698}, pao2 |-> {220224, 224689}, pf_ratio |-> {223834}]
berlin_itemids == UNION {ventilation_itemids[k] : k \in DOMAIN ventilation_itemids}
chunk_size == 1000000

\* read_csv(chunksize=chunk_size): the table in consecutive pieces
RECURSIVE chunks(_, _)
chunks(df, n) ==
  IF Len(df) = 0 THEN <<>>
  ELSE IF Len(df) <= n THEN <<df>>
  ELSE <<SubSeq(df, 1, n)>> \o chunks(SubSeq(df, n + 1, Len(df)), n)

\* the extraction loop, then pd.concat, which refuses an empty list
Berlin_Extract ==
  /\ nb = "ards_berlin" /\ pc = "extract"
  /\ LET hadms == {r.hadm_id : r \in Range(base_cohort)}
         cohort_stay_ids == {r.stay_id : r \in {x \in Range(icustays) : x.hadm_id \in hadms}}
         pieces == chunks(chartevents, chunk_size)
         filtered == [i \in DOMAIN pieces |->
                        SelectSeq(pieces[i], LAMBDA e : /\ e.stay_id \in cohort_stay_ids
                                                        /\ e.itemid \in berlin_itemids)]
         appended == SelectSeq(filtered, LAMBDA c : Len(c) > 0)
     IN  IF appended = <<>>
         THEN /\ raised' = "ValueError" /\ pc' = "raised"
              /\ UNCHANGED vent_df
         ELSE /\ vent_df' = Flatten(appended)
              /\ pc' = "process"
              /\ UNCHANGED raised
  /\ UNCHANGED <<nb, inputs, cohortVars, originalVars, ardsVars, sf_ratios, final_cohort,
                 bilateral_infiltrates_df, vent_processed, ards_df, ards_cohort>>

berlin_param_type(itemid) ==
  IF itemid \in ventilation_itemids.pf_ratio THEN "pf_ratio"
  ELSE IF itemid \in ventilation_itemids.pao2 THEN "pao2"
  ELSE IF itemid \in ventilation_itemids.fio2_fraction THEN "fio2_fraction"
  ELSE IF itemid \in ventilation_itemids.fio2_percent THEN "fio2_percent"
  ELSE IF itemid \in ventilation_itemids.peep THEN "peep"
  ELSE "unknown"

\* fio2_percent / 100, then both FiO2 kinds become 'fio2'
berlin_fio2(r) ==
  IF r.param_type = "fio2_percent"
  THEN [r EXCEPT !.valuenum = FDiv(r.valuenum, F(100)), !.param_type = "fio2"]
  ELSE IF r.param_type = "fio2_fraction" THEN [r EXCEPT !.param_type = "fio2"]
  ELSE r

\* pivot_table(index=[hadm_id, charttime], aggfunc='first'), one column per kind
berlin_pivot(df) ==
  {[hadm_id |-> k[1], charttime |-> k[2]] @@
   [c \in {"peep", "fio2", "pao2", "pf_ratio"} |->
      FirstValue(SelectSeq(df, LAMBDA r : /\ r.hadm_id = k[1] /\ r.charttime = k[2]
                                          /\ r.param_type = c))]
   : k \in {<<r.hadm_id, r.charttime>> : r \in {x \in Range(df) : ~IsNaN(x.valuenum)}}}

\* sensitivity variant for C29: the quotient replaces a charted P/F
computed_pf_ratio_overwriting(p) ==
  IF ~IsNaN(p.pao2) /\ ~IsNaN(p.fio2) /\ FGt(p.fio2, F(0))
  THEN [p EXCEPT !.pf_ratio = FDiv(p.pao2, p.fio2)]
  ELSE p

\* P/F is computed where it is not charted and PaO2 and FiO2 > 0 are present
computed_pf_ratio(p) ==
  IF IsNaN(p.pf_ratio) /\ ~IsNaN(p.pao2) /\ ~IsNaN(p.fio2) /\ FGt(p.fio2, F(0))
  THEN [p EXCEPT !.pf_ratio = FDiv(p.pao2, p.fio2)]
  ELSE p

process_vent_params_vectorized(df) ==
  LET typed == WithColumn(df, "param_type",
                          [i \in DOMAIN df |-> berlin_param_type(df[i].itemid)])
      combined == [i \in DOMAIN typed |-> berlin_fio2(typed[i])]
  IN  {computed_pf_ratio(p) : p \in berlin_pivot(combined)}

Berlin_Process ==
  /\ nb = "ards_berlin" /\ pc = "process"
  /\ vent_processed' = process_vent_params_vectorized(vent_df)
  /\ pc' = "apply"
  /\ UNCHANGED <<nb, raised, inputs, cohortVars, originalVars, ardsVars, sf_ratios,
                 final_cohort, bilateral_infiltrates_df, vent_df, ards_df, ards_cohort>>

\* .dt.total_seconds() / 3600 of a difference of two times
hours_between(later, earlier) == Frac(later - earlier, 60)

\* the severity of the first qualifying measurement (np.select, in order)
berlin_severity(pf_ratio) ==
  IF FLe(pf_ratio, F(100)) THEN "severe"
  ELSE IF FLe(pf_ratio, F(200)) THEN "moderate"
  ELSE IF FLe(pf_ratio, F(300)) THEN "mild"
  ELSE "unknown"

\* vent_processed merged with the infiltrates time and the admission time
vent_with_bilateral(bilateral, vent, cohort) ==
  {[hadm_id |-> m[1].hadm_id, charttime |-> m[1].charttime, peep |-> m[1].peep,
    fio2 |-> m[1].fio2, pao2 |-> m[1].pao2, pf_ratio |-> m[1].pf_ratio,
    bilateral_infiltrates_time |-> m[2].bilateral_infiltrates_time,
    admission_dttm |-> m[3].admission_dttm,
    hours_from_admission |-> hours_between(m[1].charttime, m[3].admission_dttm),
    hours_from_bilateral |->
      hours_between(m[1].charttime, m[2].bilateral_infiltrates_time),
    bilateral_from_admission |->
      hours_between(m[2].bilateral_infiltrates_time, m[3].admission_dttm)]
   : m \in {x \in vent \X Range(bilateral) \X Range(cohort) :
              x[2].hadm_id = x[1].hadm_id /\ x[3].hadm_id = x[1].hadm_id}}

\* sensitivity variant for C28: measurements before the infiltrates count
berlin_qualifying_before_infiltrates(merged) ==
  {r \in merged :
     /\ FLe(r.bilateral_from_admission, F(168))
     /\ FGe(r.hours_from_admission, F(0))
     /\ FLe(r.hours_from_admission, F(168))
     /\ FGe(r.peep, F(5))
     /\ ~IsNaN(r.pf_ratio)
     /\ FLe(r.pf_ratio, F(300))}

\* the Berlin filters of the vectorized function
berlin_qualifying(merged) ==
  {r \in merged :
     /\ FLe(r.bilateral_from_admission, F(168))
     /\ FGe(r.hours_from_bilateral, F(0))
     /\ FGe(r.hours_from_admission, F(0))
     /\ FLe(r.hours_from_admission, F(168))
     /\ FGe(r.peep, F(5))
     /\ ~IsNaN(r.pf_ratio)
     /\ FLe(r.pf_ratio, F(300))}

\* one row of ards_df
ards_row(r, severity) ==
  [hadm_id |-> r.hadm_id, ards_onset_time |-> r.charttime,
   bilateral_infiltrates_time |-> r.bilateral_infiltrates_time,
   admission_time |-> r.admission_dttm,
   initial_pf_ratio |-> r.pf_ratio, initial_peep |-> r.peep,
   initial_fio2 |-> r.fio2, initial_pao2 |-> r.pao2, ards_severity |-> severity]

\* groupby('hadm_id')['charttime'].idxmin(): the earliest qualifying row of
\* each admission, admissions in ascending order
identify_ards_onset_vectorized_corrected(bilateral, vent, cohort) ==
  LET qualifying == berlin_qualifying(vent_with_bilateral(bilateral, vent, cohort))
      keys == SortedSeq({r.hadm_id : r \in qualifying})
  IN  [k \in DOMAIN keys |->
         LET mine == {r \in qualifying : r.hadm_id = keys[k]}
             first == CHOOSE r \in mine : r.charttime = Min({x.charttime : x \in mine})
         IN  ards_row(first, berlin_severity(first.pf_ratio)) @@
             [hours_from_admission |-> first.hours_from_admission,
              hours_from_bilateral |-> first.hours_from_bilateral,
              bilateral_from_admission |-> first.bilateral_from_admission]]

\* the per-admission function: <<>> for None, else the returned dict
identify_ards_onset_corrected(hadm_id, bilateral, vent, cohort) ==
  LET infiltrates == SelectSeq(bilateral, LAMBDA b : b.hadm_id = hadm_id)
      admitted == SelectSeq(cohort, LAMBDA c : c.hadm_id = hadm_id)
  IN  IF infiltrates = <<>> THEN <<>>
      ELSE IF admitted = <<>> THEN <<[hadm_id |-> hadm_id, raised |-> "IndexError"]>>
      ELSE
        LET bilateral_time == infiltrates[1].bilateral_infiltrates_time
            admission_time == admitted[1].admission_dttm
            hadm_vent == {p \in vent : p.hadm_id = hadm_id}
            time_window_end == admission_time + 7 * 24 * 60
            qualifying_measurements ==
              {p \in hadm_vent :
                 /\ p.charttime >= bilateral_time
                 /\ p.charttime >= admission_time
                 /\ p.charttime <= time_window_end
                 /\ FGe(p.peep, F(5))
                 /\ ~IsNaN(p.pf_ratio)
                 /\ FLe(p.pf_ratio, F(300))}
        IN  IF FGt(Frac(bilateral_time - admission_time, 24 * 60), F(7)) THEN <<>>
            ELSE IF hadm_vent = {} THEN <<>>
            ELSE IF qualifying_measurements = {} THEN <<>>
            ELSE
              LET first_qualifying ==
                    CHOOSE p \in qualifying_measurements :
                       p.charttime = Min({x.charttime : x \in qualifying_measurements})
                  pf_ratio == first_qualifying.pf_ratio
                  severity == IF FLe(pf_ratio, F(100)) THEN "severe"
                              ELSE IF FLe(pf_ratio, F(200)) THEN "moderate"
                              ELSE "mild"
              IN  <<ards_row(first_qualifying @@
                               [bilateral_infiltrates_time |-> bilateral_time,
                                admission_dttm |-> admission_time],
                             severity)>>

\* Step 4: ards_df
Berlin_Apply ==
  /\ nb = "ards_berlin" /\ pc = "apply"
  /\ ards_df' = identify_ards_onset_vectorized_corrected(bilateral_infiltrates_df,
                                                         vent_processed, base_cohort)
  /\ pc' = "cohort"
  /\ UNCHANGED <<nb, raised, inputs, cohortVars, originalVars, ardsVars, sf_ratios,
                 final_cohort, bilateral_infiltrates_df, vent_df, vent_processed,
                 ards_cohort>>

\* Step 5: base_cohort.merge(ards_df, on='hadm_id'); the empty frame that
\* Step 4 returns when nothing qualifies has no hadm_id column
Berlin_Cohort ==
  /\ nb = "ards_berlin" /\ pc = "cohort"
  /\ IF ards_df = <<>>
     THEN /\ raised' = "KeyError" /\ pc' = "raised"
          /\ UNCHANGED ards_cohort
     ELSE /\ LET merged == MergeInner(base_cohort, ards_df, "hadm_id")
             IN  ards_cohort' =
                   WithColumn(merged, "hours_to_ards_onset",
                              [i \in DOMAIN merged |->
                                 hours_between(merged[i].ards_onset_time,
                                               merged[i].admission_dttm)])
          /\ pc' = "done"
          /\ UNCHANGED raised
  /\ UNCHANGED <<nb, inputs, cohortVars, originalVars, ardsVars, sf_ratios,
                 final_cohort, bilateral_infiltrates_df, vent_df, vent_processed, ards_df>>

NextBerlin ==
  \/ Berlin_Radiology \/ Berlin_Extract \/ Berlin_Process \/ Berlin_Apply
  \/ Berlin_Cohort

-----------------------------------------------------------------------------
(* Inputs *)
HadmIds == {1, 2}

EmptyState ==
  /\ raised = ""
  /\ adult_icu_admissions = <<>> /\ vent_data = <<>> /\ vent_data_filtered = <<>>
  /\ peep_qualifying_admissions = {}
  /\ sf_ratios = IF nb = "cohort_original" THEN <<>> ELSE {}
  /\ final_qualifying_admissions = {} /\ hf_admissions = {} /\ pregnancy_admissions = {}
  /\ final_cohort_admissions = {} /\ final_cohort_admissions_w_reports = {}
  /\ final_cohort = <<>>
  /\ admissions_with_icu = <<>> /\ cohort_data = <<>> /\ cohort_data_peep = <<>>
  /\ admissions_with_peep = {} /\ qualifying_admissions = {}
  /\ cohort_with_criteria = <<>> /\ cohort_with_radiology = <<>>
  /\ sf_data_60min = <<>> /\ ards_onset_times = <<>>
  /\ cohort_radiology = <<>> /\ bilateral_by_admission = <<>>
  /\ bilateral_infiltrates_df = <<>> /\ vent_df = <<>> /\ vent_processed = {}
  /\ ards_df = <<>> /\ ards_cohort = <<>>

Event(stay, item, t, v) == [stay_id |-> stay, itemid |-> item, charttime |-> t, valuenum |-> v]

\* what is charted during one stay: nothing; PEEP 5 with S/F 90/0.2 = 450;
\* PEEP 4 with S/F 90/0.3 = 300; PEEP 5 with S/F 300
StayCharts(s) ==
  {<<>>,
   <<Event(s, 220339, 10, F(5)), Event(s, 220277, 10, F(90)), Event(s, 223835, 10, <<2, 10>>)>>,
   <<Event(s, 220339, 10, F(4)), Event(s, 220277, 10, F(90)), Event(s, 220210, 10, F(30))>>,
   <<Event(s, 220339, 10, F(5)), Event(s, 220277, 10, F(90)), Event(s, 220210, 10, F(30))>>}

InitCohort ==
  /\ nb = "cohort_optimized" /\ pc = "step1"
  /\ EmptyState
  /\ admissions = <<[hadm_id |-> 1, subject_id |-> 1, admit_year |-> 2150],
                    [hadm_id |-> 2, subject_id |-> 2, admit_year |-> 2151]>>
  /\ \E age \in {16, 17, 18} :
       patients = <<[subject_id |-> 1, anchor_age |-> F(18), anchor_year |-> F(2150)],
                    [subject_id |-> 2, anchor_age |-> F(age), anchor_year |-> F(2150)]>>
  /\ \E hs \in SeqsUpTo(HadmIds, MaxStays) :
       /\ icustays = [s \in DOMAIN hs |->
                        [stay_id |-> s, hadm_id |-> hs[s], intime |-> 0, outtime |-> 1440 * s]]
       /\ \E charts \in [DOMAIN hs -> UNION {StayCharts(s) : s \in DOMAIN hs}] :
            /\ \A s \in DOMAIN hs : charts[s] \in StayCharts(s)
            /\ chartevents = Flatten(charts)
  /\ diagnoses \in SeqsUpTo([hadm_id : HadmIds,
                             icd_code : {<<"4", "2", "8", "0">>, <<"O", "8", "0">>,
                                         <<"4", "0", "1", "9">>}], MaxDiagnoses)
  /\ radiology \in SeqsUpTo([hadm_id : HadmIds], MaxReports)
  /\ base_cohort = <<>>

SpecCohort == InitCohort /\ [][NextCohort]_vars

(* PEEP window: two adult admissions with one stay each, PEEP charted around
   the edges of the 48 h window *)
MaxPeepEvents == 2
TwoAdults ==
  /\ admissions = <<[hadm_id |-> 1, subject_id |-> 1, admit_year |-> 2150],
                    [hadm_id |-> 2, subject_id |-> 2, admit_year |-> 2150]>>
  /\ patients = <<[subject_id |-> 1, anchor_age |-> F(18), anchor_year |-> F(2150)],
                  [subject_id |-> 2, anchor_age |-> F(40), anchor_year |-> F(2150)]>>
PeepStays == <<[stay_id |-> 1, hadm_id |-> 1, intime |-> 0, outtime |-> 4000],
               [stay_id |-> 2, hadm_id |-> 2, intime |-> 100, outtime |-> 5000]>>
PeepEvents ==
  {Event(s.stay_id, 220339, s.intime + off, v) :
     s \in Range(PeepStays), off \in {-1, 0, 48 * 60, 48 * 60 + 1}, v \in {F(4), F(5)}}
  \cup {Event(1, 220277, 0, F(5)), Event(1, 224700, 0, NaN), Event(2, 224699, 100, F(6))}

InitPeep ==
  /\ nb \in {"cohort_optimized", "cohort_original"} /\ pc = "step1"
  /\ EmptyState
  /\ TwoAdults
  /\ icustays = PeepStays
  /\ chartevents \in SeqsUpTo(PeepEvents, MaxPeepEvents)
  /\ diagnoses = <<>>
  /\ radiology = <<[hadm_id |-> 1]>>
  /\ base_cohort = <<>>

SpecPeep == InitPeep /\ [][NextCohort \/ NextOriginal]_vars

(* Ratio matching: admission 1 with two overlapping stays, admission 2 with
   one; SpO2, FiO2 and PaO2 charted at a few instants, with zero and negative
   values, in every notebook *)
MaxRatioEvents == 3
RatioStays == <<[stay_id |-> 1, hadm_id |-> 1, intime |-> 0, outtime |-> 1440],
                [stay_id |-> 2, hadm_id |-> 1, intime |-> 30, outtime |-> 2000],
                [stay_id |-> 3, hadm_id |-> 2, intime |-> 0, outtime |-> 1440]>>
\* always charted: a qualifying PEEP for both admissions, an SpO2 for admission 2
RatioPrefix == <<Event(1, 220339, 0, F(5)), Event(3, 220339, 0, F(5)),
                 Event(3, 220277, 10, F(95))>>
RatioEvents ==
  {Event(1, 220277, 10, F(90)), Event(1, 220210, 10, F(30)), Event(1, 220277, 10, F(-90)),
   Event(1, 223835, 10, F(0)), Event(1, 220277, 40, F(95)), Event(1, 220210, 40, F(50)),
   Event(2, 223835, 40, <<1, 2>>), Event(3, 220210, 10, F(40)), Event(3, 223835, 10, F(0))}
\* the Berlin notebook reads chartevents with its hadm_id column
BerlinEvent(h, stay, item, t, v) == Event(stay, item, t, v) @@ [hadm_id |-> h]
BerlinPrefix == <<BerlinEvent(1, 1, 220339, 10, F(5)), BerlinEvent(2, 3, 220224, 10, F(90))>>
BerlinEvents ==
  {BerlinEvent(1, 1, 220224, 10, F(80)), BerlinEvent(1, 1, 220210, 10, F(40)),
   BerlinEvent(1, 1, 223835, 10, F(0)), BerlinEvent(1, 1, 223834, 10, F(250)),
   BerlinEvent(1, 1, 224689, 20, F(60)), BerlinEvent(1, 2, 223835, 20, <<1, 2>>),
   BerlinEvent(1, 1, 220224, 20, NaN), BerlinEvent(2, 3, 220210, 10, F(50)),
   BerlinEvent(2, 3, 224698, 10, F(0)), BerlinEvent(1, 1, 220210, 20, <<1, 2>>),
   BerlinEvent(2, 3, 223835, 10, F(50))}
Notebooks == {"cohort_optimized", "cohort_original", "ards_optimized", "ards_berlin"}
FirstCell(n) == IF n = "ards_optimized" THEN "step2"
                ELSE IF n = "ards_berlin" THEN "radiology" ELSE "step1"

NextAll == NextCohort \/ NextOriginal \/ NextArds \/ NextBerlin

InitRatio ==
  /\ nb \in Notebooks /\ pc = FirstCell(nb)
  /\ EmptyState
  /\ TwoAdults
  /\ icustays = RatioStays
  /\ chartevents \in IF nb = "ards_berlin"
                      THEN {BerlinPrefix \o v : v \in SeqsUpTo(BerlinEvents, MaxRatioEvents)}
                      ELSE {RatioPrefix \o v : v \in SeqsUpTo(RatioEvents, MaxRatioEvents)}
  /\ diagnoses = <<>>
  /\ radiology = <<[hadm_id |-> 1, charttime |-> 5, text |-> "Bilateral opacities."]>>
  /\ base_cohort = IF nb = "ards_optimized" THEN RatioStays
                   ELSE IF nb = "ards_berlin"
                        THEN <<[hadm_id |-> 1, admission_dttm |-> 0],
                               [hadm_id |-> 2, admission_dttm |-> 0]>>
                        ELSE <<>>

SpecRatio == InitRatio /\ [][NextAll]_vars

(* Nearest-time matching: SpO2 of admission 1 at minute 200, FiO2 readings at
   the edges of the two-hour tolerance, and readings of admission 2 *)
MaxAsofEvents == 3
AsofPrefix == <<Event(1, 220339, 0, F(5)), Event(2, 220339, 100, F(5)),
                Event(1, 220277, 200, F(90))>>
AsofEvents ==
  {Event(1, 220210, 80, F(40)), Event(1, 220210, 79, F(30)), Event(1, 220210, 320, F(50)),
   Event(1, 220210, 321, F(60)), Event(1, 223835, 210, F(0)), Event(1, 223835, 190, <<1, 2>>),
   Event(2, 220210, 250, F(25)), Event(2, 220277, 260, F(95)), Event(2, 220277, 150, F(95))}
InitAsof ==
  /\ nb = "cohort_original" /\ pc = "step1"
  /\ EmptyState
  /\ TwoAdults
  /\ icustays = PeepStays
  /\ chartevents \in {AsofPrefix \o v : v \in SeqsUpTo(AsofEvents, MaxAsofEvents)}
  /\ diagnoses = <<>>
  /\ radiology = <<[hadm_id |-> 1], [hadm_id |-> 2]>>
  /\ base_cohort = <<>>

SpecAsof == InitAsof /\ [][NextOriginal]_vars

(* Several stays per admission: admission 1 has up to two stays, admission 2
   one, in any order of the icustays table *)
MaxStayRows == 3
AllStays == <<[stay_id |-> 1, hadm_id |-> 1, intime |-> 0, outtime |-> 1440],
              [stay_id |-> 2, hadm_id |-> 1, intime |-> 2000, outtime |-> 5000],
              [stay_id |-> 3, hadm_id |-> 2, intime |-> 0, outtime |-> 2880]>>
StayOrders ==
  {q \in SeqsUpTo(DOMAIN AllStays, MaxStayRows) :
     \A i, j \in DOMAIN q : i # j => q[i] # q[j]}
StaysEvents ==
  <<Event(1, 220339, 10, F(5)), Event(1, 220277, 10, F(90)), Event(1, 220210, 10, F(30)),
    Event(2, 220339, 2010, F(5)),
    Event(3, 220339, 10, F(5)), Event(3, 220277, 10, F(90)), Event(3, 220210, 10, F(30))>>
InitStays ==
  /\ nb \in {"cohort_optimized", "cohort_original"} /\ pc = "step1"
  /\ EmptyState
  /\ TwoAdults
  /\ \E q \in StayOrders : icustays = [i \in DOMAIN q |-> AllStays[q[i]]]
  /\ chartevents = StaysEvents
  /\ diagnoses \in SeqsUpTo([hadm_id : HadmIds,
                             icd_code : {<<"4", "2", "8", "0">>, <<"O", "8", "0">>}],
                            MaxDiagnoses)
  /\ radiology \in {<<[hadm_id |-> 1]>>, <<[hadm_id |-> 1], [hadm_id |-> 2]>>}
  /\ base_cohort = <<>>

SpecStays == InitStays /\ [][NextCohort \/ NextOriginal]_vars

(* ARDS onset: FiO2 charted at fixed instants of the three stays, SpO2
   readings chosen around the 60-minute window and the 315 threshold *)
MaxOnsetEvents == 3
OnsetPrefix ==
  <<Event(1, 220210, 5, F(30)), Event(1, 220210, 30, F(50)), Event(1, 220210, 60, F(30)),
    Event(1, 220210, 61, F(30)), Event(2, 220210, 2010, F(40)), Event(3, 220210, 10, F(30))>>
OnsetEvents ==
  {Event(1, 220277, 5, F(90)), Event(1, 220277, 5, F(99)), Event(1, 220277, 5, <<189, 2>>),
   Event(1, 220277, 30, F(90)), Event(1, 220277, 60, F(90)), Event(1, 220277, 61, F(90)),
   Event(2, 220277, 2010, F(80)), Event(3, 220277, 10, F(90))}
InitOnset ==
  /\ nb = "ards_optimized" /\ pc = "step2"
  /\ EmptyState
  /\ TwoAdults
  /\ icustays = AllStays
  /\ chartevents \in {OnsetPrefix \o v : v \in SeqsUpTo(OnsetEvents, MaxOnsetEvents)}
  /\ diagnoses = <<>>
  /\ radiology = <<[hadm_id |-> 1, charttime |-> 5, text |-> "Bilateral opacities."]>>
  /\ base_cohort = AllStays

SpecOnset == InitOnset /\ [][NextArds]_vars

(* Radiology: positive and negative reports of both admissions at different times *)
MaxOnsetReports == 3
ReportRows ==
  {[hadm_id |-> 1, charttime |-> 5, text |-> "No acute cardiopulmonary process."],
   [hadm_id |-> 1, charttime |-> 50, text |-> "Bilateral opacities."],
   [hadm_id |-> 1, charttime |-> 20, text |-> "ARDS"],
   [hadm_id |-> 1, charttime |-> 70, text |-> ""],
   [hadm_id |-> 2, charttime |-> 10, text |-> "No acute cardiopulmonary process."],
   [hadm_id |-> 2, charttime |-> 30, text |-> "Left opacity. Right consolidation."]}
InitRadiology ==
  /\ nb \in {"ards_optimized", "ards_berlin"} /\ pc = FirstCell(nb)
  /\ EmptyState
  /\ TwoAdults
  /\ icustays = RatioStays
  /\ chartevents = IF nb = "ards_berlin"
                   THEN BerlinPrefix \o <<BerlinEvent(2, 3, 220210, 10, F(50))>>
                   ELSE RatioPrefix \o <<Event(3, 220210, 10, F(40))>>
  /\ diagnoses = <<>>
  /\ radiology \in SeqsUpTo(ReportRows, MaxOnsetReports)
  /\ base_cohort = IF nb = "ards_optimized" THEN RatioStays
                   ELSE <<[hadm_id |-> 1, admission_dttm |-> 0],
                          [hadm_id |-> 2, admission_dttm |-> 0]>>

SpecRadiology == InitRadiology /\ [][NextArds \/ NextBerlin]_vars

(* Exclusions: both admissions pass every inclusion filter; their diagnosis
   codes lie on both sides of each prefix rule *)
MaxExclusionDiagnoses == 2
IcdCodes ==
  {<<"4", "2", "8", "0">>, <<"4", "2", "8", "9", "1">>, <<"4", "2", "8">>, <<"4", "2", "9", "0">>,
   <<"I", "5", "0">>, <<"I", "5", "0", "9">>, <<"I", "5">>, <<"I", "5", "1">>,
   <<"6", "3", "0">>, <<"6", "7", "9", "1">>, <<"6", "8", "0">>, <<"6", "2", "9">>,
   <<"6", "3">>, <<"O", "8", "0">>, <<"E", "6", "3", "0">>, <<"4", "0", "1", "9">>}
InitExclusion ==
  /\ nb \in {"cohort_optimized", "cohort_original"} /\ pc = "step1"
  /\ EmptyState
  /\ TwoAdults
  /\ icustays = AllStays
  /\ chartevents = StaysEvents
  /\ diagnoses \in SeqsUpTo([hadm_id : HadmIds, icd_code : IcdCodes], MaxExclusionDiagnoses)
  /\ radiology = <<[hadm_id |-> 1], [hadm_id |-> 2]>>
  /\ base_cohort = <<>>

SpecExclusion == InitExclusion /\ [][NextCohort \/ NextOriginal]_vars

(* FiO2 units: admission 1 has SpO2 at minutes 10 and 20; FiO2 is charted at
   those minutes as a fraction, as a percentage, above 100 or below 0 *)
MaxNormalizeEvents == 2
FiO2Values == {F(0), <<1, 2>>, F(1), <<101, 100>>, F(21), F(100), F(150), F(-5)}
NormalizePrefix == <<Event(1, 220339, 0, F(5)), Event(1, 220277, 10, F(90)),
                     Event(1, 220277, 20, F(90))>>
NormalizeEvents ==
  {Event(1, item, t, v) : item \in {220210, 223835}, t \in {10, 20}, v \in FiO2Values}
InitNormalize ==
  /\ nb \in {"cohort_optimized", "cohort_original", "ards_optimized"} /\ pc = FirstCell(nb)
  /\ EmptyState
  /\ TwoAdults
  /\ icustays = PeepStays
  /\ chartevents \in {NormalizePrefix \o v : v \in SeqsUpTo(NormalizeEvents, MaxNormalizeEvents)}
  /\ diagnoses = <<>>
  /\ radiology = <<[hadm_id |-> 1, charttime |-> 5, text |-> "Bilateral opacities."]>>
  /\ base_cohort = IF nb = "ards_optimized" THEN PeepStays ELSE <<>>

SpecNormalize == InitNormalize /\ [][NextCohort \/ NextOriginal \/ NextArds]_vars

(* The 315 threshold: FiO2 0.3 is charted early in stay 1, long after the end
   of stay 1 and during stay 2; SpO2 94.5 gives exactly 315 *)
MaxThresholdEvents == 3
ThresholdPrefix ==
  <<Event(1, 220339, 0, F(5)), Event(2, 220339, 100, F(5)),
    Event(1, 220210, 10, F(30)), Event(1, 220210, 5000, F(30)), Event(2, 220210, 6000, F(30))>>
ThresholdEvents ==
  {Event(1, 220277, 10, <<189, 2>>), Event(1, 220277, 10, F(94)), Event(1, 220277, 10, F(99)),
   Event(1, 220277, 5000, <<189, 2>>), Event(1, 220277, 5000, F(94)),
   Event(2, 220277, 6000, <<189, 2>>), Event(2, 220277, 6000, F(90))}
InitThreshold ==
  /\ nb \in {"cohort_optimized", "cohort_original"} /\ pc = "step1"
  /\ EmptyState
  /\ TwoAdults
  /\ icustays = PeepStays
  /\ chartevents \in {ThresholdPrefix \o v : v \in SeqsUpTo(ThresholdEvents, MaxThresholdEvents)}
  /\ diagnoses = <<>>
  /\ radiology = <<[hadm_id |-> 1], [hadm_id |-> 2]>>
  /\ base_cohort = <<>>

SpecThreshold == InitThreshold /\ [][NextCohort \/ NextOriginal]_vars

(* The severity bands: FiO2 0.3 is charted for one stay of each admission;
   SpO2 45, 70.5 and 94.5 give exactly 150, 235 and 315 *)
MaxSeverityEvents == 2
SeverityPrefix == <<Event(1, 220210, 10, F(30)), Event(3, 220210, 10, F(30))>>
SeverityEvents ==
  {Event(s, 220277, 10, v) :
     s \in {1, 3}, v \in {F(45), F(46), <<141, 2>>, F(71), <<189, 2>>, F(99)}}
InitSeverity ==
  /\ nb = "ards_optimized" /\ pc = "step2"
  /\ EmptyState
  /\ TwoAdults
  /\ icustays = RatioStays
  /\ chartevents \in {SeverityPrefix \o v : v \in SeqsUpTo(SeverityEvents, MaxSeverityEvents)}
  /\ diagnoses = <<>>
  /\ radiology = <<[hadm_id |-> 1, charttime |-> 5, text |-> "Bilateral opacities."]>>
  /\ base_cohort = RatioStays

SpecSeverity == InitSeverity /\ [][NextArds]_vars

(* The Berlin timing: admission 1 is admitted at minute 20000, so that its
   week ends at minute 30080; PEEP is charted before, during and after the
   week, once below 5; P/F ratios are charted at the band edges; the positive
   report is written before, at, during and after the week *)
MaxBerlinEvents == 2
MaxBerlinReports == 1
BerlinAdmitted == 20000
BerlinOnsetPrefix ==
  <<BerlinEvent(1, 1, 220339, 19990, F(5)), BerlinEvent(1, 1, 220339, 20050, F(5)),
    BerlinEvent(1, 1, 220339, 20060, F(4)), BerlinEvent(1, 1, 220339, 30080, F(5)),
    BerlinEvent(1, 1, 220339, 30081, F(5))>>
BerlinOnsetEvents ==
  {BerlinEvent(1, 1, 223834, 20050, F(v)) : v \in {100, 101, 200, 201, 300, 301}}
  \cup {BerlinEvent(1, 1, 223834, t, F(250)) : t \in {19990, 20060, 30080, 30081}}
BerlinReports ==
  {[hadm_id |-> 1, charttime |-> t, text |-> "Bilateral opacities."]
   : t \in {9000, 19940, 20000, 20050, 20055, 30080, 30081}}
InitBerlin ==
  /\ nb = "ards_berlin" /\ pc = "radiology"
  /\ EmptyState
  /\ TwoAdults
  /\ icustays = RatioStays
  /\ chartevents \in {BerlinOnsetPrefix \o v : v \in SeqsUpTo(BerlinOnsetEvents, MaxBerlinEvents)}
  /\ diagnoses = <<>>
  /\ radiology \in SeqsUpTo(BerlinReports, MaxBerlinReports)
  /\ base_cohort = <<[hadm_id |-> 1, admission_dttm |-> BerlinAdmitted],
                     [hadm_id |-> 2, admission_dttm |-> 0]>>

SpecBerlin == InitBerlin /\ [][NextBerlin]_vars

(* Ages: each admission's patient record is missing or has an anchor age
   and an anchor year around the admission year; both admissions have a stay
   with qualifying readings *)
MaxAgePatients == 2
AgeRecords ==
  [subject_id : 1..MaxAgePatients, anchor_age : {F(17), F(18), F(19)},
   anchor_year : {F(2149), F(2150), F(2151)}]
InitAge ==
  /\ nb \in {"cohort_optimized", "cohort_original"} /\ pc = "step1"
  /\ EmptyState
  /\ admissions = <<[hadm_id |-> 1, subject_id |-> 1, admit_year |-> 2150],
                    [hadm_id |-> 2, subject_id |-> 2, admit_year |-> 2151]>>
  /\ patients \in {p \in SeqsUpTo(AgeRecords, MaxAgePatients) :
                      \A i, j \in DOMAIN p : i < j => p[i].subject_id < p[j].subject_id}
  /\ icustays = PeepStays
  /\ chartevents = ThresholdPrefix \o <<Event(1, 220277, 10, F(90)), Event(2, 220277, 6000, F(90))>>
  /\ diagnoses = <<>>
  /\ radiology = <<[hadm_id |-> 1], [hadm_id |-> 2]>>
  /\ base_cohort = <<>>

SpecAge == InitAge /\ [][NextCohort \/ NextOriginal]_vars

(* Windows: stay 1 enters the ICU at minute 100, stay 2 has no ICU-in time
   and stay 9 is in no table; PEEP 5, SpO2 90 and FiO2 30 % are charted
   together for one of these stays just before the ICU-in time, at it, and
   at both edges of the 60 min and of the 48 h window *)
MaxWindowCharts == 2
WindowStays == <<[stay_id |-> 1, hadm_id |-> 1, intime |-> 100, outtime |-> 4000],
                 [stay_id |-> 2, hadm_id |-> 2, intime |-> NaT, outtime |-> 5000]>>
WindowChart(k) ==
  <<Event(k[1], 220339, k[2], F(5)), Event(k[1], 220277, k[2], F(90)),
    Event(k[1], 220210, k[2], F(30))>>
InitWindow ==
  /\ nb \in {"cohort_optimized", "ards_optimized"} /\ pc = FirstCell(nb)
  /\ EmptyState
  /\ TwoAdults
  /\ icustays = WindowStays
  /\ \E ks \in SeqsUpTo({1, 2, 9} \X {99, 100, 160, 161, 2980, 2981}, MaxWindowCharts) :
        chartevents = Flatten([i \in DOMAIN ks |-> WindowChart(ks[i])])
  /\ diagnoses = <<>>
  /\ radiology = <<[hadm_id |-> 1, charttime |-> 5, text |-> "Bilateral opacities."]>>
  /\ base_cohort = IF nb = "ards_optimized" THEN WindowStays ELSE <<>>

SpecWindow == InitWindow /\ [][NextCohort \/ NextArds]_vars

(* Extraction: chart events of the Berlin items and of another item, of a
   cohort stay and of a stay outside the cohort, in any order, none included *)
MaxExtractEvents == 3
InitExtract ==
  /\ nb = "ards_berlin" /\ pc = "radiology"
  /\ EmptyState
  /\ TwoAdults
  /\ icustays = RatioStays \o <<[stay_id |-> 9, hadm_id |-> 9, intime |-> 0, outtime |-> 1440]>>
  /\ chartevents \in
       SeqsUpTo({BerlinEvent(1, 1, 220339, 10, F(5)), BerlinEvent(1, 1, 223834, 10, F(250)),
                 BerlinEvent(1, 1, 220277, 10, F(90)), BerlinEvent(9, 9, 220339, 10, F(5)),
                 BerlinEvent(2, 3, 220224, 10, F(90)), BerlinEvent(2, 3, 223835, 10, <<1, 2>>)},
                MaxExtractEvents)
  /\ diagnoses = <<>>
  /\ radiology = <<[hadm_id |-> 1, charttime |-> 5, text |-> "Bilateral opacities."]>>
  /\ base_cohort = <<[hadm_id |-> 1, admission_dttm |-> 0],
                     [hadm_id |-> 2, admission_dttm |-> 0]>>

SpecExtract == InitExtract /\ [][NextBerlin]_vars

(* Kinds: stay 1 is charted at minute 10 under every item of either
   notebook and under an item of neither, with the value 5 or with no value *)
MaxKindEvents == 2
InitKinds ==
  /\ nb \in {"cohort_optimized", "ards_berlin"} /\ pc = FirstCell(nb)
  /\ EmptyState
  /\ TwoAdults
  /\ icustays = RatioStays
  /\ \E ks \in SeqsUpTo({220339, 224700, 224699, 220277, 224696, 220210, 223835, 224698,
                          220224, 224689, 223834, 999} \X {F(5), NaN}, MaxKindEvents) :
        chartevents = [i \in DOMAIN ks |->
                         IF nb = "ards_berlin" THEN BerlinEvent(1, 1, ks[i][1], 10, ks[i][2])
                         ELSE Event(1, ks[i][1], 10, ks[i][2])]
  /\ diagnoses = <<>>
  /\ radiology = <<[hadm_id |-> 1, charttime |-> 5, text |-> "Bilateral opacities."]>>
  /\ base_cohort = IF nb = "ards_berlin"
                   THEN <<[hadm_id |-> 1, admission_dttm |-> 0],
                          [hadm_id |-> 2, admission_dttm |-> 0]>>
                   ELSE <<>>

SpecKinds == InitKinds /\ [][NextCohort \/ NextBerlin]_vars

-----------------------------------------------------------------------------
(* C1: the stage sets, each computed from the raw tables alone *)
Stage_AdultICU ==
  {a.hadm_id : a \in {x \in Range(admissions) :
      /\ \E p \in Range(patients) :
            /\ p.subject_id = x.subject_id
            /\ FGe(FAdd(p.anchor_age, FSub(F(x.admit_year), p.anchor_year)), F(18))
      /\ \E s \in Range(icustays) : s.hadm_id = x.hadm_id}}
Stage_Peep ==
  {s.hadm_id : s \in {x \in Range(icustays) :
      \E e \in Range(chartevents) :
         /\ e.stay_id = x.stay_id /\ e.itemid \in PEEP_ITEMIDS
         /\ FGe(e.valuenum, F(5))
         /\ 0 <= e.charttime - x.intime /\ e.charttime - x.intime <= 48 * 60}}
AllChartedSF ==
  LET charted == SelectSeq(chartevents,
                           LAMBDA e : /\ e.itemid \in SPO2_ITEMIDS \cup FIO2_ITEMIDS
                                      /\ ~IsNaN(e.valuenum))
      merged == MergeInner(charted, Project(icustays, {"stay_id", "hadm_id"}), "stay_id")
  IN  [i \in DOMAIN merged |->
         fio2_fraction(merged[i] @@ [param_type |-> param_type(merged[i].itemid)])]
Stage_SF ==
  {r.hadm_id : r \in {x \in sf_ratio_rows(sf_pivot(AllChartedSF)) : FLt(x.sf_ratio, F(315))}}
Stage_Radiology == {r.hadm_id : r \in Range(radiology)} \ {NoId}
Stage_HF == {d.hadm_id : d \in {x \in Range(diagnoses) : hf_mask(x.icd_code)}}
Stage_Pregnancy == {d.hadm_id : d \in {x \in Range(diagnoses) : pregnancy_mask(x.icd_code)}}

\* C1: when the base-cohort notebook has run, the final admission set is the
\* intersection of the four inclusion stage sets minus the union of the two
\* exclusion stage sets, each stage taken over the full input (so the order
\* in which the notebook evaluates the stages does not matter).
C1_SetAlgebra ==
  (nb = "cohort_optimized" /\ pc \in {"step7", "done"}) =>
     final_cohort_admissions_w_reports =
       ((Stage_AdultICU \cap Stage_Peep \cap Stage_SF \cap Stage_Radiology)
          \ (Stage_HF \cup Stage_Pregnancy))

\* an admission is kept while another one has a low S/F ratio but no
\* qualifying PEEP and an excluding diagnosis
C1_Witness ==
  /\ nb = "cohort_optimized" /\ pc = "done"
  /\ final_cohort_admissions_w_reports # {}
  /\ \E h \in HadmIds : /\ h \in Stage_SF /\ h \notin Stage_Peep
                         /\ h \in Stage_HF \cup Stage_Pregnancy

-----------------------------------------------------------------------------
\* an admission has a PEEP observation of at least 5 charted 0 to 48 hours
\* (in minutes, both ends included) after the ICU-in time of the observation's stay
PeepObserved(h) ==
  \E s \in Range(icustays), e \in Range(chartevents) :
     /\ s.hadm_id = h /\ e.stay_id = s.stay_id
     /\ e.itemid \in {220339, 224700, 224699}
     /\ FGe(e.valuenum, F(5))
     /\ 0 <= e.charttime - s.intime /\ e.charttime - s.intime <= 48 * 60

\* C2: in both iterations of the base cohort, an admission of the cohort
\* passes the PEEP filter iff one of its PEEP observations has value >= 5 and
\* was charted 0 to 48 hours after its stay's ICU-in time, both ends included.
C2_PeepWindow ==
  /\ (nb = "cohort_optimized" /\ pc \notin {"step1", "step2", "step3"}) =>
        \A h \in HadmIds :
           h \in peep_qualifying_admissions <=>
             (h \in {r.hadm_id : r \in Range(adult_icu_admissions)} /\ PeepObserved(h))
  /\ (nb = "cohort_original" /\ pc \notin {"step1", "step2"}) =>
        \A h \in HadmIds :
           h \in admissions_with_peep <=>
             (h \in {r.hadm_id : r \in Range(admissions_with_icu)} /\ PeepObserved(h))

\* one admission passes on a single PEEP of exactly 5 at exactly 48 h, the
\* other fails with a single PEEP of 5 one minute later
C2_Witness ==
  /\ nb = "cohort_original" /\ pc = "done"
  /\ chartevents = <<Event(1, 220339, 48 * 60, F(5)), Event(2, 220339, 100 + 48 * 60 + 1, F(5))>>
  /\ admissions_with_peep = {1}

-----------------------------------------------------------------------------
(* Ratio observations against the charted readings *)
StayTable == IF nb = "ards_optimized" THEN base_cohort ELSE icustays
\* the non-null readings of the given items charted for admission h at time t
ChartedAt(h, t, items) ==
  {e \in Range(chartevents) :
     /\ e.itemid \in items /\ e.charttime = t /\ ~IsNaN(e.valuenum)
     /\ IF nb = "ards_berlin" THEN e.hadm_id = h
        ELSE \E s \in Range(StayTable) : s.stay_id = e.stay_id /\ s.hadm_id = h}
\* a charted FiO2 as a fraction: values above 1 are percentages
AsFraction(v) == IF FGt(v, F(1)) THEN Frac(v[1], v[2] * 100) ELSE v
\* in the Berlin notebook the percent item is divided by 100, the others not
BerlinFraction(e) ==
  IF e.itemid = 220210 THEN Frac(e.valuenum[1], e.valuenum[2] * 100) ELSE e.valuenum
\* q is the finite quotient n / d of a positive d
IsQuotient(q, n, d) ==
  /\ FGt(d, F(0)) /\ q[2] > 0
  /\ q[1] * d[1] * n[2] = n[1] * d[2] * q[2]
Times == {e.charttime : e \in Range(chartevents)}

\* C3: every S/F observation of the base and onset notebooks, and every P/F
\* value the Berlin notebook computes, comes from a charted numerator and a
\* charted FiO2 of the same admission and instant, has a normalized FiO2 > 0
\* and equals numerator / FiO2; an admission all of whose FiO2 readings are 0
\* does not pass the ratio criterion.
C3_RatioDenominator ==
  /\ (nb = "cohort_optimized" /\ pc \notin {"step1", "step2", "step3", "step4"}) =>
        /\ \A r \in sf_ratios :
              \E n \in ChartedAt(r.hadm_id, r.charttime, {220277, 224696}),
                 d \in ChartedAt(r.hadm_id, r.charttime, {220210, 223835}) :
                 /\ r.spo2 = n.valuenum /\ r.fio2 = AsFraction(d.valuenum)
                 /\ IsQuotient(r.sf_ratio, r.spo2, r.fio2)
        /\ \A h \in HadmIds :
              (\A t \in Times : \A d \in ChartedAt(h, t, {220210, 223835}) :
                  d.valuenum = F(0))
                => h \notin final_qualifying_admissions
  /\ (nb = "ards_optimized" /\ pc \notin {"step2", "step2_ratios"}) =>
        /\ \A r \in sf_ratios :
              \E n \in ChartedAt(r.hadm_id, r.charttime, {220277, 224696}),
                 d \in ChartedAt(r.hadm_id, r.charttime, {220210, 223835}) :
                 /\ r.spo2 = n.valuenum /\ r.fio2 = AsFraction(d.valuenum)
                 /\ IsQuotient(r.sf_ratio, r.spo2, r.fio2)
        /\ pc \notin {"step3"} =>
             \A h \in HadmIds :
                (\A t \in Times : \A d \in ChartedAt(h, t, {220210, 223835}) :
                    d.valuenum = F(0))
                  => \A o \in Range(ards_onset_times) : o.hadm_id # h
  /\ (nb = "ards_berlin" /\ pc \notin {"radiology", "extract", "process"}) =>
        \A p \in vent_processed :
           (ChartedAt(p.hadm_id, p.charttime, {223834}) = {} /\ ~IsNaN(p.pf_ratio)) =>
              \E n \in ChartedAt(p.hadm_id, p.charttime, {220224, 224689}),
                 d \in ChartedAt(p.hadm_id, p.charttime, {220210, 223835, 224698}) :
                 /\ p.pao2 = n.valuenum /\ p.fio2 = BerlinFraction(d)
                 /\ IsQuotient(p.pf_ratio, p.pao2, p.fio2)

\* admission 1 has SpO2 90 and FiO2 30 % at one instant, which give the ratio
\* 300; admission 2 has an SpO2 with an FiO2 of 0 and does not qualify
C3_Witness ==
  /\ nb = "cohort_optimized" /\ pc = "done"
  /\ chartevents = RatioPrefix \o <<Event(1, 220277, 10, F(90)), Event(1, 220210, 10, F(30)),
                                    Event(3, 223835, 10, F(0))>>
  /\ {r.sf_ratio : r \in sf_ratios} = {F(300)}
  /\ final_qualifying_admissions = {1}

\* C4: no S/F observation of the base cohort (optimized or original) is
\* negative or infinite, whatever the charted values are.
RatioRows == IF nb = "cohort_original" THEN Range(sf_ratios) ELSE sf_ratios
C4_NoNegativeRatio ==
  (nb \in {"cohort_optimized", "cohort_original"}) =>
     \A r \in RatioRows : r.sf_ratio[2] > 0 /\ r.sf_ratio[1] >= 0

(* C5: the exact-timestamp pivot *)
\* what the pivot is given: the SpO2 and FiO2 rows that passed the earlier filters
MatcherInput ==
  IF nb = "ards_optimized" THEN sf_data_60min
  ELSE SelectSeq(vent_data_filtered, LAMBDA r : r.param_type \in {"spo2", "fio2"})
AdmissionReadings(kind, h, t) ==
  SelectSeq(MatcherInput,
            LAMBDA r : r.param_type = kind /\ r.hadm_id = h /\ r.charttime = t)
StayReadings(kind, s, t) ==
  SelectSeq(MatcherInput,
            LAMBDA r : r.param_type = kind /\ r.stay_id = s /\ r.charttime = t)
\* the FiO2 the pivot keeps is the first one charted at the key
FirstPositive(readings) ==
  Len(readings) > 0 /\ FGt(AsFraction(readings[1].valuenum), F(0))
PivotDone ==
  \/ nb = "cohort_optimized" /\ pc \notin {"step1", "step2", "step3", "step4"}
  \/ nb = "ards_optimized" /\ pc \notin {"step2", "step2_ratios"}

\* C5 as stated: in both notebooks a ratio exists at (admission, timestamp)
\* iff the admission has an SpO2 and a positive FiO2 at that timestamp.
C5_AdmissionKey ==
  PivotDone =>
     \A h \in HadmIds, t \in Times :
        (\E r \in sf_ratios : r.hadm_id = h /\ r.charttime = t)
          <=> (Len(AdmissionReadings("spo2", h, t)) > 0
               /\ FirstPositive(AdmissionReadings("fio2", h, t)))

\* C5, amended: the base notebook pivots on (admission, timestamp); the onset
\* notebook pivots on (stay, admission, timestamp), so there a ratio exists at
\* a stay's timestamp iff that same stay has an SpO2 and a positive FiO2 at
\* it.  A timestamp with one kind only gives no ratio and no error, and an
\* admission without SpO2 or without FiO2 readings has no ratio at all.
C5_PivotKey ==
  /\ (nb = "cohort_optimized" /\ PivotDone) =>
        \A h \in HadmIds, t \in Times :
           (\E r \in sf_ratios : r.hadm_id = h /\ r.charttime = t)
             <=> (Len(AdmissionReadings("spo2", h, t)) > 0
                  /\ FirstPositive(AdmissionReadings("fio2", h, t)))
  /\ (nb = "ards_optimized" /\ PivotDone) =>
        /\ \A s \in Range(base_cohort), t \in Times :
              (\E r \in sf_ratios : r.stay_id = s.stay_id /\ r.charttime = t)
                <=> (Len(StayReadings("spo2", s.stay_id, t)) > 0
                     /\ FirstPositive(StayReadings("fio2", s.stay_id, t)))
        /\ \A r \in sf_ratios :
              \E s \in Range(base_cohort) : s.stay_id = r.stay_id /\ s.hadm_id = r.hadm_id
  /\ (nb = "cohort_optimized" /\ pc = "step5") => raised = ""
  /\ (nb = "ards_optimized" /\ pc = "step3") => raised = ""
  /\ PivotDone =>
        \A h \in HadmIds :
           ((\A t \in Times : Len(AdmissionReadings("spo2", h, t)) = 0)
              \/ (\A t \in Times : Len(AdmissionReadings("fio2", h, t)) = 0))
             => (\A r \in sf_ratios : r.hadm_id # h)

\* in the onset notebook stay 1 has SpO2 and FiO2 at minute 40 and gets the one
\* ratio 190, while stay 2 of the same admission has an FiO2 alone at that minute
C5_Witness ==
  /\ nb = "ards_optimized" /\ pc = "step3" /\ raised = ""
  /\ chartevents = RatioPrefix \o <<Event(1, 220277, 40, F(95)), Event(2, 223835, 40, <<1, 2>>),
                                    Event(1, 220210, 40, F(50))>>
  /\ {<<r.stay_id, r.sf_ratio>> : r \in sf_ratios} = {<<1, F(190)>>}

-----------------------------------------------------------------------------
(* C6: nearest-time matching in the original base-cohort notebook *)
AsofInput(kind) == SelectSeq(cohort_data_peep, LAMBDA r : r.param_type = kind)
\* the FiO2 readings of e's admission within two hours of e that are nearest
\* to it, the earlier one when two are equally near
NearestFiO2(e) ==
  LET cands == {f \in Range(AsofInput("fio2")) :
                  /\ f.hadm_id = e.hadm_id
                  /\ Abs(f.charttime - e.charttime) <= 120}
  IN  {f \in cands :
         \A g \in cands :
            \/ Abs(f.charttime - e.charttime) < Abs(g.charttime - e.charttime)
            \/ /\ Abs(f.charttime - e.charttime) = Abs(g.charttime - e.charttime)
               /\ f.charttime <= g.charttime}

\* C6: once the S/F cell of the original notebook is over, every SpO2 reading
\* is paired with the nearest FiO2 reading of its admission within two hours
\* (the earlier of two equidistant ones), a reading with no FiO2 within two
\* hours has no ratio, and no ratio uses an FiO2 of another admission.
C6_NearestWithinTolerance ==
  (nb = "cohort_original" /\ pc \notin {"step1", "step2", "step3"}) =>
     /\ \A e \in Range(AsofInput("spo2")) :
           IF NearestFiO2(e) = {}
           THEN ~ \E r \in Range(sf_ratios) :
                     r.hadm_id = e.hadm_id /\ r.charttime = e.charttime
           ELSE \A f \in NearestFiO2(e) :
                   FGt(AsFraction(f.valuenum), F(0)) =>
                      \E r \in Range(sf_ratios) :
                         /\ r.hadm_id = e.hadm_id /\ r.charttime = e.charttime
                         /\ r.valuenum_spo2 = e.valuenum
                         /\ r.valuenum_fio2 = AsFraction(f.valuenum)
     /\ \A r \in Range(sf_ratios) :
           \E f \in Range(AsofInput("fio2")) :
              /\ f.hadm_id = r.hadm_id /\ AsFraction(f.valuenum) = r.valuenum_fio2
              /\ Abs(f.charttime - r.charttime) <= 120

-----------------------------------------------------------------------------
(* C7: one output row per ICU stay *)
StaysOf(h) == {s \in Range(icustays) : s.hadm_id = h}

\* C7: at the end of either base-cohort notebook an admission of the output
\* has as many rows as it has ICU stays, one for each stay, and each row
\* carries icu_los_days = (outtime - intime) in days of its own stay.
C7_RowPerStay ==
  (nb \in {"cohort_optimized", "cohort_original"} /\ pc = "done") =>
     \A h \in {r.hadm_id : r \in Range(final_cohort)} :
        /\ Cardinality({i \in DOMAIN final_cohort : final_cohort[i].hadm_id = h})
             = Cardinality(StaysOf(h))
        /\ \A s \in StaysOf(h) :
              \E i \in DOMAIN final_cohort :
                 /\ final_cohort[i].stay_id = s.stay_id
                 /\ "icu_los_days" \in DOMAIN final_cohort[i]
                 /\ final_cohort[i].icu_los_days = Frac(s.outtime - s.intime, 24 * 60)

-----------------------------------------------------------------------------
(* C8, C9: ARDS onset in the optimized notebook *)
\* the stay of an output row has an S/F observation <= 315 in its first 60 minutes
StayHasOnset(row) ==
  \E r \in sf_ratios :
     /\ r.stay_id = row.stay_id
     /\ FLe(r.sf_ratio, F(315))
     /\ 0 <= r.charttime - row.intime /\ r.charttime - row.intime <= 60

\* C8: an output row has has_ards_onset iff its own stay has an S/F
\* observation <= 315 charted 0 to 60 minutes after that stay's ICU-in time,
\* and then the onset time lies 0 to 60 minutes after the row's ICU-in time.
C8_StayOnset ==
  (nb = "ards_optimized" /\ pc = "done") =>
     \A i \in DOMAIN final_cohort :
        LET row == final_cohort[i]
        IN  /\ row.has_ards_onset <=> StayHasOnset(row)
            /\ row.has_ards_onset =>
                 /\ 0 <= row.ards_onset_time[1] - row.intime
                 /\ row.ards_onset_time[1] - row.intime <= 60

\* C9: the onset ratio and the onset minutes of an admission are those of one
\* qualifying observation charted at the onset time.
C9_OnsetObservation ==
  (nb = "ards_optimized" /\ pc \notin {"step2", "step2_ratios", "step3"}) =>
     \A k \in DOMAIN ards_onset_times :
        LET o == ards_onset_times[k]
        IN  \E r \in sf_ratios :
               /\ r.hadm_id = o.hadm_id /\ FLe(r.sf_ratio, F(315))
               /\ r.charttime = o.ards_onset_time[1]
               /\ r.sf_ratio = o.ards_onset_sf_ratio
               /\ r.minutes_from_icu = o.ards_onset_minutes_from_icu

-----------------------------------------------------------------------------
(* C10: bilateral infiltrates by admission *)
PositiveReports(h) ==
  {r \in Range(radiology) :
     r.hadm_id = h /\ detect_bilateral_infiltrates_vectorized(r.text)}
EarliestPositive(h) == Min({r.charttime : r \in PositiveReports(h)})

\* C10: in the optimized and in the Berlin notebook an admission is flagged
\* iff one of its reports is classified positive, and the time kept for it is
\* that of its earliest positive report.
C10_EarliestPositive ==
  /\ (nb = "ards_optimized" /\ pc \in {"step5", "step5_flags", "done"}) =>
        \A h \in HadmIds :
           /\ PositiveReports(h) # {} =>
                \E b \in Range(bilateral_by_admission) : b.hadm_id = h
           /\ \A b \in Range(bilateral_by_admission) :
                 b.hadm_id = h =>
                    /\ b.has_bilateral_infiltrates[1] <=> PositiveReports(h) # {}
                    /\ PositiveReports(h) # {} =>
                         b.first_radiology_time[1] = EarliestPositive(h)
  /\ (nb = "ards_optimized" /\ pc \in {"step5_flags", "done"}) =>
        \A i \in DOMAIN final_cohort :
           final_cohort[i].has_bilateral_infiltrates
             <=> PositiveReports(final_cohort[i].hadm_id) # {}
  /\ (nb = "ards_berlin" /\ pc # "radiology") =>
        \A h \in HadmIds :
           /\ (\E b \in Range(bilateral_infiltrates_df) : b.hadm_id = h)
                <=> PositiveReports(h) # {}
           /\ \A b \in Range(bilateral_infiltrates_df) :
                 b.hadm_id = h => b.bilateral_infiltrates_time = EarliestPositive(h)

-----------------------------------------------------------------------------
(* C11: the exclusion rules, character by character *)
IsHeartFailureCode(c) ==
  \/ Len(c) >= 4 /\ c[1] = "4" /\ c[2] = "2" /\ c[3] = "8" /\ c[4] \in Digits
  \/ Len(c) >= 3 /\ c[1] = "I" /\ c[2] = "5" /\ c[3] = "0"
IsPregnancyCode(c) ==
  \/ Len(c) >= 3 /\ c[1] = "6" /\ c[2] \in {"3", "4", "5", "6", "7"} /\ c[3] \in Digits
  \/ Len(c) >= 1 /\ c[1] = "O"
ExcludedByCode ==
  {d.hadm_id : d \in {x \in Range(diagnoses) :
                        IsHeartFailureCode(x.icd_code) \/ IsPregnancyCode(x.icd_code)}}

\* C11: in both base-cohort notebooks the exclusion stage removes exactly the
\* admissions with a diagnosis code starting with 4280..4289 or I50, or with
\* first three characters in 630..679 or starting with O; the two exclusion
\* sets hold exactly the admissions matching their own rule.
C11_ExclusionRules ==
  /\ (nb = "cohort_optimized" /\ pc \in {"step6", "step7", "done"}) =>
        /\ final_cohort_admissions = final_qualifying_admissions \ ExcludedByCode
        /\ final_qualifying_admissions # {} =>
             /\ hf_admissions =
                  {d.hadm_id : d \in {x \in Range(diagnoses) : IsHeartFailureCode(x.icd_code)}}
             /\ pregnancy_admissions =
                  {d.hadm_id : d \in {x \in Range(diagnoses) : IsPregnancyCode(x.icd_code)}}
  /\ (nb = "cohort_original" /\ pc = "done") =>
        /\ {r.hadm_id : r \in Range(final_cohort)}
             = {r.hadm_id : r \in Range(cohort_with_radiology)} \ ExcludedByCode
        /\ \A i \in DOMAIN cohort_with_radiology :
              LET r == cohort_with_radiology[i]
              IN  /\ r.has_heart_failure <=>
                       \E d \in Range(diagnoses) :
                          d.hadm_id = r.hadm_id /\ IsHeartFailureCode(d.icd_code)
                  /\ r.is_pregnant <=>
                       \E d \in Range(diagnoses) :
                          d.hadm_id = r.hadm_id /\ IsPregnancyCode(d.icd_code)

\* admission 1 carries a heart-failure code and a pregnancy code and is removed,
\* admission 2 stays
C11_Witness ==
  /\ nb = "cohort_optimized" /\ pc = "done"
  /\ diagnoses = <<[hadm_id |-> 1, icd_code |-> <<"4", "2", "8", "0">>],
                   [hadm_id |-> 1, icd_code |-> <<"O", "8", "0">>]>>
  /\ final_qualifying_admissions = {1, 2}
  /\ hf_admissions = {1} /\ pregnancy_admissions = {1}
  /\ final_cohort_admissions = {2}

-----------------------------------------------------------------------------
\* C12: in the onset notebook, when no S/F ratio could be computed in the
\* 60-minute window, the onset cell and the later cells raise nothing and
\* every output row has has_ards_onset = false, has_ards = false and
\* ards_severity = 'none'.
C12_NoRatioNoRaise ==
  (nb = "ards_optimized" /\ sf_ratios = {}
     /\ pc \in {"step4", "step5", "step5_flags", "done"}) =>
     /\ raised = ""
     /\ pc = "done" =>
          \A i \in DOMAIN final_cohort :
             /\ ~final_cohort[i].has_ards_onset /\ ~final_cohort[i].has_ards
             /\ final_cohort[i].ards_severity = "none"

-----------------------------------------------------------------------------
(* C13: empty stages in the optimized base-cohort notebook *)
NoRatioInput ==
  \A r \in Range(vent_data_filtered) : r.param_type \notin {"spo2", "fio2"}
NoLowRatio == \A r \in sf_ratios : ~FLt(r.sf_ratio, F(315))
AfterCell(cells) == nb = "cohort_optimized" /\ pc \in cells

\* C13: the optimized base-cohort notebook never raises, and once a stage's
\* qualifying set is empty (no PEEP admission, no SpO2/FiO2 reading, no S/F
\* below 315, every admission excluded, no admission with a report) every
\* later set is empty and the final cohort has no row.
C13_EmptyStages ==
  /\ nb = "cohort_optimized" => raised = ""
  /\ AfterCell({"step5", "step6", "step7", "done"}) =>
        ((peep_qualifying_admissions = {} \/ NoRatioInput \/ NoLowRatio)
          => final_qualifying_admissions = {})
  /\ AfterCell({"step6", "step7", "done"}) =>
        ((final_qualifying_admissions \subseteq ExcludedByCode)
          => final_cohort_admissions = {})
  /\ AfterCell({"step7", "done"}) =>
        ((final_cohort_admissions \cap {r.hadm_id : r \in Range(radiology)} = {})
          => final_cohort_admissions_w_reports = {})
  /\ AfterCell({"done"}) =>
        (final_cohort_admissions_w_reports = {} => final_cohort = <<>>)

\* the only admission that passes PEEP and S/F has an excluding diagnosis and
\* a report: the notebook ends without error on an empty cohort
C13_Witness ==
  /\ AfterCell({"done"}) /\ raised = ""
  /\ final_qualifying_admissions # {}
  /\ final_qualifying_admissions \subseteq ExcludedByCode
  /\ final_qualifying_admissions \subseteq {r.hadm_id : r \in Range(radiology)}
  /\ final_cohort = <<>>

-----------------------------------------------------------------------------
(* C14: the outputs as functions of the input tables *)
\* the first non-null reading, in the row order of chartevents, of the given
\* items charted at time t during one of the given stays
FirstReadingOf(items, stays, t) ==
  LET idx == {i \in DOMAIN chartevents :
                /\ chartevents[i].itemid \in items /\ chartevents[i].stay_id \in stays
                /\ chartevents[i].charttime = t /\ ~IsNaN(chartevents[i].valuenum)}
  IN  IF idx = {} THEN <<0, 0>>
      ELSE chartevents[CHOOSE i \in idx : \A j \in idx : i <= j].valuenum
QualifyingObservations(h) ==
  {r \in sf_ratios : r.hadm_id = h /\ FLe(r.sf_ratio, F(315))}

\* C14: every output is determined by the input tables and their row order:
\* a ratio observation is unique for its key and is built from the first
\* SpO2 and the first FiO2 charted at the key, and the onset fields of an
\* admission are the minima over its qualifying observations, so two runs on
\* the same tables give the same records.
C14_Deterministic ==
  /\ (nb = "cohort_optimized" /\ pc \notin {"step1", "step2", "step3", "step4"}) =>
        \A r \in sf_ratios :
           LET stays == {s.stay_id : s \in StaysOf(r.hadm_id)}
           IN  /\ r.spo2 = FirstReadingOf({220277, 224696}, stays, r.charttime)
               /\ r.fio2 = AsFraction(FirstReadingOf({220210, 223835}, stays, r.charttime))
               /\ r.sf_ratio = FDiv(r.spo2, r.fio2)
               /\ \A q \in sf_ratios :
                     (q.hadm_id = r.hadm_id /\ q.charttime = r.charttime) => q = r
  /\ (nb = "ards_optimized" /\ pc \notin {"step2", "step2_ratios"}) =>
        \A r \in sf_ratios :
           /\ r.spo2 = FirstReadingOf({220277, 224696}, {r.stay_id}, r.charttime)
           /\ r.fio2 = AsFraction(FirstReadingOf({220210, 223835}, {r.stay_id}, r.charttime))
           /\ r.sf_ratio = FDiv(r.spo2, r.fio2)
           /\ \A q \in sf_ratios :
                 (q.stay_id = r.stay_id /\ q.charttime = r.charttime) => q = r
  /\ (nb = "ards_optimized" /\ pc \notin {"step2", "step2_ratios", "step3"}) =>
        /\ \A h \in HadmIds :
              Cardinality({k \in DOMAIN ards_onset_times : ards_onset_times[k].hadm_id = h})
                = IF QualifyingObservations(h) = {} THEN 0 ELSE 1
        /\ \A k \in DOMAIN ards_onset_times :
              LET o == ards_onset_times[k]
                  g == QualifyingObservations(o.hadm_id)
              IN  /\ o.ards_onset_time = <<Min({r.charttime : r \in g})>>
                  /\ \E r \in g : r.sf_ratio = o.ards_onset_sf_ratio
                  /\ \A r \in g : FLe(o.ards_onset_sf_ratio, r.sf_ratio)
                  /\ \E r \in g : r.minutes_from_icu = o.ards_onset_minutes_from_icu
                  /\ \A r \in g : FLe(o.ards_onset_minutes_from_icu, r.minutes_from_icu)
  /\ (nb = "ards_optimized" /\ pc = "done") =>
        \A i \in DOMAIN final_cohort :
           \A k \in DOMAIN ards_onset_times :
              ards_onset_times[k].hadm_id = final_cohort[i].hadm_id =>
                 /\ final_cohort[i].ards_onset_time = ards_onset_times[k].ards_onset_time
                 /\ final_cohort[i].ards_onset_sf_ratio
                      = ards_onset_times[k].ards_onset_sf_ratio

\* two SpO2 readings (90, then -90) share the key of one FiO2 reading: the
\* ratio is the one of the reading charted first
C14_Witness ==
  /\ nb = "cohort_optimized" /\ pc = "done"
  /\ chartevents = RatioPrefix \o <<Event(1, 220277, 10, F(90)), Event(1, 220277, 10, F(-90)),
                                    Event(1, 220210, 10, F(30))>>
  /\ {r.sf_ratio : r \in sf_ratios} = {F(300)}

-----------------------------------------------------------------------------
(* C15, C16: FiO2 unit normalization *)
\* the charted FiO2 readings as the rows the normalization is applied to
FiO2Rows ==
  {e @@ [param_type |-> "fio2"] :
     e \in {x \in Range(chartevents) : x.itemid \in {220210, 223835} /\ ~IsNaN(x.valuenum)}}
InUnitInterval(v) == FGe(v, F(0)) /\ FLe(v, F(1))

\* C15: after normalization every FiO2 value lies in [0, 1]: the values the
\* optimized notebooks normalize, and the FiO2 of every ratio observation.
C15_FiO2InUnitInterval ==
  PivotDone =>
     /\ \A e \in FiO2Rows :
           /\ InUnitInterval(fio2_fraction(e).valuenum)
           /\ InUnitInterval(onset_fio2_fraction(e).valuenum)
     /\ \A r \in sf_ratios : InUnitInterval(r.fio2)

\* C16: normalization leaves a value <= 1 unchanged, divides a value > 1 by
\* 100, and applied to a normalized value changes nothing.
C16_NormalizeIdempotent ==
  (\/ nb = "cohort_optimized" /\ PivotDone
   \/ nb = "cohort_original" /\ pc \notin {"step1", "step2", "step3"}) =>
     \A e \in FiO2Rows :
        /\ FLe(e.valuenum, F(1)) =>
             /\ fio2_fraction(e) = e
             /\ original_fio2_fraction(e) = e
        /\ FGt(e.valuenum, F(1)) =>
             /\ fio2_fraction(e).valuenum = Frac(e.valuenum[1], e.valuenum[2] * 100)
             /\ original_fio2_fraction(e).valuenum = Frac(e.valuenum[1], e.valuenum[2] * 100)
        /\ fio2_fraction(fio2_fraction(e)) = fio2_fraction(e)
        /\ original_fio2_fraction(original_fio2_fraction(e)) = original_fio2_fraction(e)

-----------------------------------------------------------------------------
(* C17: the ratio stage of the base cohort *)
\* admission h has, at some instant, a first-charted SpO2 and a first-charted
\* FiO2 > 0 whose quotient is below 315
HasRatioBelow315(h) ==
  \E t \in Times :
     LET stays == {s.stay_id : s \in StaysOf(h)}
         sp == FirstReadingOf({220277, 224696}, stays, t)
         fi == AsFraction(FirstReadingOf({220210, 223835}, stays, t))
     IN  /\ ~IsNaN(sp) /\ FGt(fi, F(0))
         /\ sp[1] * fi[2] < 315 * fi[1] * sp[2]

\* C17: in both base-cohort notebooks an admission with a qualifying PEEP
\* passes the ratio stage iff one of its S/F observations, charted at any
\* time, is strictly below 315.
C17_StrictlyBelow315 ==
  /\ (nb = "cohort_optimized" /\ PivotDone) =>
        \A h \in HadmIds :
           h \in final_qualifying_admissions
             <=> (h \in peep_qualifying_admissions /\ HasRatioBelow315(h))
  /\ (nb = "cohort_original" /\ pc \notin {"step1", "step2", "step3"}) =>
        /\ \A h \in HadmIds :
              h \in qualifying_admissions
                <=> \E r \in Range(sf_ratios) :
                       /\ r.hadm_id = h
                       /\ r.sf_ratio[2] > 0 /\ r.sf_ratio[1] < 315 * r.sf_ratio[2]
        /\ {r.hadm_id : r \in Range(cohort_with_criteria)} = qualifying_admissions

\* admission 1 has ratio 315 early and 313.3 long after its 48 hours and
\* passes; admission 2 has exactly 315 and does not
C17_Witness ==
  /\ nb = "cohort_optimized" /\ pc = "done"
  /\ chartevents = ThresholdPrefix \o <<Event(1, 220277, 10, <<189, 2>>),
                                        Event(1, 220277, 5000, F(94)),
                                        Event(2, 220277, 6000, <<189, 2>>)>>
  /\ F(315) \in {r.sf_ratio : r \in sf_ratios}
  /\ final_qualifying_admissions = {1}

-----------------------------------------------------------------------------
\* C18: the output of the ARDS-identification notebook has exactly the rows
\* of the base cohort, in order, one output row for each input row, each
\* with its input fields unchanged.
C18_NoPatientFiltering ==
  (nb = "ards_optimized" /\ pc \in {"step5_flags", "done"}) =>
     /\ Len(final_cohort) = Len(base_cohort)
     /\ \A i \in DOMAIN base_cohort :
           \A f \in DOMAIN base_cohort[i] : final_cohort[i][f] = base_cohort[i][f]

\* admission 1 has two stays and three reports, admission 2 has an onset:
\* the output still has the three rows of the base cohort
C18_Witness ==
  /\ nb = "ards_optimized" /\ pc = "done"
  /\ Cardinality({i \in DOMAIN radiology : radiology[i].hadm_id = 1}) = 3
  /\ Len(base_cohort) = 3 /\ Len(final_cohort) = 3
  /\ \E i \in DOMAIN final_cohort : final_cohort[i].has_ards_onset
  /\ \E i \in DOMAIN final_cohort : final_cohort[i].first_radiology_time # <<>>

-----------------------------------------------------------------------------
\* C19: in every output row of the ARDS-identification notebook, has_ards is
\* the conjunction of has_ards_onset and has_bilateral_infiltrates,
\* has_ards_onset holds exactly when the row has an onset time (which it has
\* exactly when its admission has a row in ards_onset_times), and
\* has_bilateral_infiltrates is a boolean that is false for an admission
\* without any radiology report.
HasReport(h) == \E i \in DOMAIN radiology : radiology[i].hadm_id = h

HasOnsetRow(h) == \E i \in DOMAIN ards_onset_times : ards_onset_times[i].hadm_id = h

C19_ArdsFlags ==
  (nb = "ards_optimized" /\ pc = "done") =>
     \A i \in DOMAIN final_cohort :
        LET r == final_cohort[i] IN
        /\ r.has_bilateral_infiltrates \in BOOLEAN
        /\ r.has_ards_onset \in BOOLEAN
        /\ r.has_ards = (r.has_ards_onset /\ r.has_bilateral_infiltrates)
        /\ r.has_ards_onset = (r.ards_onset_time # <<>>)
        /\ r.has_ards_onset = HasOnsetRow(r.hadm_id)
        /\ (~HasReport(r.hadm_id) => (r.has_bilateral_infiltrates = FALSE))

\* one admission has ARDS (onset and a positive report) while another
\* admission of the same run has no report at all
C19_Witness ==
  /\ nb = "ards_optimized" /\ pc = "done"
  /\ Len(radiology) > 0
  /\ \E i \in DOMAIN final_cohort : final_cohort[i].has_ards
  /\ \E i \in DOMAIN final_cohort :
        /\ ~HasReport(final_cohort[i].hadm_id)
        /\ final_cohort[i].has_bilateral_infiltrates = FALSE

-----------------------------------------------------------------------------
\* C20: every output row of the optimized-onset notebook has exactly one
\* severity; it is 'none' exactly when the row has no onset, and for a row
\* with an onset it is 'mild' exactly when the onset ratio is above 235,
\* 'moderate' exactly when it is above 150 and at most 235, and 'severe'
\* exactly when it is at most 150.
RatioAbove(ratio, bound) == ratio[2] > 0 /\ ratio[1] > bound * ratio[2]

RatioAtMost(ratio, bound) == ratio[2] > 0 /\ ratio[1] <= bound * ratio[2]

C20_SeverityBands ==
  (nb = "ards_optimized" /\ pc = "done") =>
     \A i \in DOMAIN final_cohort :
        LET r == final_cohort[i]
            ratio == r.ards_onset_sf_ratio
        IN  /\ r.ards_severity \in {"none", "mild", "moderate", "severe"}
            /\ (r.ards_severity = "none") = (r.ards_onset_time = <<>>)
            /\ (r.ards_onset_time # <<>>) =>
                  (/\ (r.ards_severity = "mild") = RatioAbove(ratio, 235)
                   /\ (r.ards_severity = "moderate") =
                         (RatioAbove(ratio, 150) /\ RatioAtMost(ratio, 235))
                   /\ (r.ards_severity = "severe") = RatioAtMost(ratio, 150))

\* the two band edges in one run: an onset at exactly 150 is severe and an
\* onset at exactly 235 is moderate
C20_Witness ==
  /\ nb = "ards_optimized" /\ pc = "done"
  /\ \E i \in DOMAIN final_cohort :
        /\ final_cohort[i].ards_onset_sf_ratio = F(150)
        /\ final_cohort[i].ards_severity = "severe"
  /\ \E i \in DOMAIN final_cohort :
        /\ final_cohort[i].ards_onset_sf_ratio = F(235)
        /\ final_cohort[i].ards_severity = "moderate"

-----------------------------------------------------------------------------
(* The Berlin identification against the processed measurements *)
BerlinApplied ==
  nb = "ards_berlin" /\ (pc \in {"cohort", "done"} \/ raised = "KeyError")

AdmissionTime(h) == (CHOOSE c \in Range(base_cohort) : c.hadm_id = h).admission_dttm

Week == 168 * 60

\* the measurements of admission h that meet the oxygenation criterion in
\* the week after admission and not before the infiltrates were documented
BerlinObservations(h) ==
  {p \in vent_processed :
     /\ p.hadm_id = h
     /\ p.peep[2] > 0 /\ p.peep[1] >= 5 * p.peep[2]
     /\ p.pf_ratio[2] > 0 /\ p.pf_ratio[1] <= 300 * p.pf_ratio[2]
     /\ p.charttime >= AdmissionTime(h)
     /\ p.charttime >= EarliestPositive(h)
     /\ p.charttime <= AdmissionTime(h) + Week}

BerlinSeverityOf(row) ==
  LET r == row.initial_pf_ratio
  IN  /\ (row.ards_severity = "severe") = (r[1] <= 100 * r[2])
      /\ (row.ards_severity = "moderate") = (r[1] > 100 * r[2] /\ r[1] <= 200 * r[2])
      /\ (row.ards_severity = "mild") = (r[1] > 200 * r[2] /\ r[1] <= 300 * r[2])

\* C21: in the Berlin notebook an admission is identified as ARDS iff its
\* earliest positive report is written in the 168 hours after admission and
\* it has an observation with PEEP >= 5 and ratio <= 300 at or after
\* admission, at or after that report and at most 168 hours after admission;
\* the onset is the earliest such observation and the severity is the band of
\* its ratio.
C21_BerlinIdentification ==
  BerlinApplied =>
     \A c \in Range(base_cohort) :
        LET h == c.hadm_id
            identified == {a \in Range(ards_df) : a.hadm_id = h}
        IN  /\ (identified # {}) =
                 (/\ PositiveReports(h) # {}
                  /\ EarliestPositive(h) >= AdmissionTime(h)
                  /\ EarliestPositive(h) <= AdmissionTime(h) + Week
                  /\ BerlinObservations(h) # {})
            /\ \A a \in identified :
                  /\ \E p \in BerlinObservations(h) :
                        /\ a.ards_onset_time = p.charttime
                        /\ a.initial_pf_ratio = p.pf_ratio
                        /\ \A q \in BerlinObservations(h) : p.charttime <= q.charttime
                  /\ BerlinSeverityOf(a)

-----------------------------------------------------------------------------
\* C22: an admission passes the age filter iff its patient's anchor age plus
\* (admission year - anchor year) is at least 18, an age of exactly 18
\* included; an admission without a patient record does not pass, and the
\* filter raises nothing.
AgeAtAdmission(a, p) == p.anchor_age[1] + (a.admit_year - p.anchor_year[1])

AdultsWithStay ==
  IF nb = "cohort_optimized" THEN {r.hadm_id : r \in Range(adult_icu_admissions)}
  ELSE {r.hadm_id : r \in Range(admissions_with_icu)}

C22_AgeFilter ==
  (nb \in {"cohort_optimized", "cohort_original"} /\ pc = "step2") =>
     /\ raised = ""
     /\ \A a \in Range(admissions) :
           (a.hadm_id \in AdultsWithStay) =
             (\E p \in Range(patients) :
                 /\ p.subject_id = a.subject_id
                 /\ AgeAtAdmission(a, p) >= 18)

\* admission 1 is exactly 18 (17 at the anchor year, admitted a year later)
\* and passes; admission 2 has no patient record and does not
C22_Witness ==
  /\ pc = "step2"
  /\ patients = <<[subject_id |-> 1, anchor_age |-> F(17), anchor_year |-> F(2149)]>>
  /\ AdultsWithStay = {1}

-----------------------------------------------------------------------------
\* C23: a chart event charted before the ICU-in time of its stay, or of a stay
\* that is not in the cohort or has no ICU-in time, meets no window-bounded
\* criterion: an admission has PEEP in the 48 h window, or a reading in the
\* 60 min window, only through events of its cohort stays charted at or after
\* a known ICU-in time; elapsed times are never clamped; the cells that apply
\* the windows raise nothing.
InWindow(e, width) ==
  \E s \in Range(icustays) :
     /\ s.stay_id = e.stay_id /\ s.intime # NaT
     /\ 0 <= e.charttime - s.intime /\ e.charttime - s.intime <= width

PeepInWindow(h) ==
  \E e \in Range(chartevents), s \in Range(icustays) :
     /\ s.stay_id = e.stay_id /\ s.hadm_id = h
     /\ e.itemid \in PEEP_ITEMIDS /\ e.valuenum[2] > 0 /\ e.valuenum[1] >= 5 * e.valuenum[2]
     /\ InWindow(e, 48 * 60)

C23_OutOfWindowDropped ==
  /\ (nb = "cohort_optimized" /\ pc \notin {"step1", "step2", "step3"}) =>
        /\ raised = ""
        /\ peep_qualifying_admissions = {h \in HadmIds : PeepInWindow(h)}
  /\ (nb = "ards_optimized" /\ pc # "step2") =>
        /\ pc \in {"step2_ratios", "step3"} => raised = ""
        /\ \A i \in DOMAIN sf_data_60min :
              LET r == sf_data_60min[i] IN
              /\ InWindow(r, 60)
              /\ r.intime # NaT
              /\ r.minutes_from_icu = F(r.charttime - r.intime)
        /\ \A e \in Range(chartevents) :
              (e.itemid \in ITEMIDS_SF /\ InWindow(e, 60)) =>
                 \E i \in DOMAIN sf_data_60min :
                    /\ sf_data_60min[i].stay_id = e.stay_id
                    /\ sf_data_60min[i].charttime = e.charttime
                    /\ sf_data_60min[i].itemid = e.itemid

\* stay 1 is charted a minute before its ICU-in time and stay 2, which has no
\* ICU-in time, a minute after: the run ends with no admission qualifying
C23_Witness ==
  /\ nb = "cohort_optimized" /\ pc = "done"
  /\ chartevents = WindowChart(<<1, 99>>) \o WindowChart(<<2, 160>>)
  /\ peep_qualifying_admissions = {}

-----------------------------------------------------------------------------
\* C24: in every notebook the FiO2 that enters a ratio is the charted value
\* divided by 100 iff the charted value is greater than 1, whatever item it
\* was charted under.
FiO2Of(h) ==
  {e \in Range(chartevents) :
     /\ e.itemid \in {220210, 223835, 224698} /\ ~IsNaN(e.valuenum)
     /\ IF nb = "ards_berlin" THEN e.hadm_id = h
        ELSE \E s \in Range(StayTable) : s.stay_id = e.stay_id /\ s.hadm_id = h}

C24_DividedIffAboveOne ==
  /\ (nb \in {"cohort_optimized", "ards_optimized"} /\ PivotDone) =>
        \A r \in sf_ratios :
           \E d \in FiO2Of(r.hadm_id) :
              d.charttime = r.charttime /\ r.fio2 = AsFraction(d.valuenum)
  /\ (nb = "cohort_original" /\ pc \notin {"step1", "step2", "step3"}) =>
        \A i \in DOMAIN sf_ratios :
           \E d \in FiO2Of(sf_ratios[i].hadm_id) :
              sf_ratios[i].valuenum_fio2 = AsFraction(d.valuenum)
  /\ (nb = "ards_berlin" /\ pc \notin {"radiology", "extract", "process"}) =>
        \A p \in vent_processed :
           ~IsNaN(p.fio2) =>
              \E d \in FiO2Of(p.hadm_id) :
                 d.charttime = p.charttime /\ p.fio2 = AsFraction(d.valuenum)

-----------------------------------------------------------------------------
\* C25: the chunked extraction of the Berlin notebook returns exactly the
\* rows, in order, that one filter over the whole table (stay in cohort and
\* item among the ventilation items) returns, and it completes without
\* raising also when no row matches.
WholeTableFilter ==
  SelectSeq(chartevents,
            LAMBDA e : /\ \E s \in Range(icustays) :
                             /\ s.stay_id = e.stay_id
                             /\ \E c \in Range(base_cohort) : c.hadm_id = s.hadm_id
                       /\ e.itemid \in {220339, 224700, 220210, 223835, 224698,
                                        220224, 224689, 223834})

C25_ChunkedExtraction ==
  (nb = "ards_berlin" /\ pc \notin {"radiology", "extract"}) =>
     /\ raised # "ValueError"
     /\ vent_df = WholeTableFilter

-----------------------------------------------------------------------------
\* C26: every stage of the base-cohort notebook only removes admissions: the
\* admissions with a report are among those left by the exclusions, these
\* among the PEEP-and-S/F-qualifying ones, these among the PEEP-qualifying
\* ones, these among the adult admissions with an ICU stay; an admission
\* without PEEP >= 5 in the window is in no set from the PEEP stage on and in
\* no row of the final cohort, whatever its other data.
FromPeepStageOn ==
  peep_qualifying_admissions \cup final_qualifying_admissions
    \cup final_cohort_admissions \cup final_cohort_admissions_w_reports
    \cup {r.hadm_id : r \in Range(final_cohort)}

C26_StagesOnlyRemove ==
  nb = "cohort_optimized" =>
     /\ {r.hadm_id : r \in Range(final_cohort)} \subseteq final_cohort_admissions_w_reports
     /\ final_cohort_admissions_w_reports \subseteq final_cohort_admissions
     /\ final_cohort_admissions \subseteq final_qualifying_admissions
     /\ final_qualifying_admissions \subseteq peep_qualifying_admissions
     /\ peep_qualifying_admissions \subseteq {r.hadm_id : r \in Range(adult_icu_admissions)}
     /\ \A h \in HadmIds : ~PeepObserved(h) => h \notin FromPeepStageOn

\* an adult admission with a stay, a low S/F ratio, a report and no excluding
\* diagnosis, but PEEP below 5, is in no set from the PEEP stage on
C26_Witness ==
  /\ nb = "cohort_optimized" /\ pc = "done"
  /\ \E h \in HadmIds :
        /\ ~PeepObserved(h)
        /\ h \in (Stage_AdultICU \cap Stage_SF \cap Stage_Radiology)
                    \ (Stage_HF \cup Stage_Pregnancy)
        /\ h \notin FromPeepStageOn

-----------------------------------------------------------------------------
\* C27: every chart event kept by the item filter has exactly one kind (the
\* item sets of the kinds are pairwise disjoint) and none keeps 'unknown'; an
\* event of an item in no kind's set, or without a numeric value, is used by
\* no criterion: whatever qualifies an admission, and whatever value enters
\* the processed table, has been charted with a value under an item of the
\* kind it is used as.
BaseKinds == [peep |-> {220339, 224700, 224699}, spo2 |-> {220277, 224696},
              fio2 |-> {220210, 223835}]

BerlinKinds == [peep |-> {220339, 224700}, fio2 |-> {220210, 223835, 224698},
                pao2 |-> {220224, 224689}, pf_ratio |-> {223834}]

KindsOf(kinds, itemid) == {k \in DOMAIN kinds : itemid \in kinds[k]}

C27_ExactlyOneKind ==
  /\ (nb = "cohort_optimized" /\ pc \notin {"step1", "step2"}) =>
        /\ \A i \in DOMAIN vent_data :
              /\ KindsOf(BaseKinds, vent_data[i].itemid) = {vent_data[i].param_type}
              /\ ~IsNaN(vent_data[i].valuenum)
        /\ (pc # "step3") =>
              \A h \in peep_qualifying_admissions :
                 \E t \in Times : \E e \in ChartedAt(h, t, BaseKinds.peep) : FGe(e.valuenum, F(5))
        /\ (pc \notin {"step3", "step4"}) =>
              \A r \in sf_ratios :
                 /\ \E e \in ChartedAt(r.hadm_id, r.charttime, BaseKinds.spo2) :
                       r.spo2 = e.valuenum
                 /\ \E e \in ChartedAt(r.hadm_id, r.charttime, BaseKinds.fio2) :
                       r.fio2 = AsFraction(e.valuenum)
  /\ (nb = "ards_berlin" /\ pc \notin {"radiology", "extract"}) =>
        /\ \A i \in DOMAIN vent_df :
              Cardinality(KindsOf(BerlinKinds, vent_df[i].itemid)) = 1
        /\ (pc # "process") =>
              \A p \in vent_processed :
                 /\ \E k \in DOMAIN BerlinKinds :
                       ChartedAt(p.hadm_id, p.charttime, BerlinKinds[k]) # {}
                 /\ \A k \in {"peep", "pao2", "fio2"} :
                       ~IsNaN(p[k]) =>
                          \E e \in ChartedAt(p.hadm_id, p.charttime, BerlinKinds[k]) :
                             p[k] = IF k = "fio2" THEN BerlinFraction(e) ELSE e.valuenum
                 /\ ~IsNaN(p.pf_ratio) =>
                       (\/ \E e \in ChartedAt(p.hadm_id, p.charttime, BerlinKinds.pf_ratio) :
                              p.pf_ratio = e.valuenum
                        \/ ~IsNaN(p.pao2) /\ ~IsNaN(p.fio2))

\* a PEEP of 5 charted under an item of no kind and a PEEP item charted
\* without a value: nothing is kept and no admission qualifies
C27_Witness ==
  /\ nb = "cohort_optimized" /\ pc = "done"
  /\ chartevents = <<Event(1, 999, 10, F(5)), Event(1, 224699, 10, NaN)>>
  /\ vent_data = <<>>
  /\ peep_qualifying_admissions = {}

-----------------------------------------------------------------------------
\* C28: for every admission the per-admission Berlin function and the
\* vectorized one agree: both report no ARDS, or both report the same onset
\* time, the same initial ratio and the same severity.
PerAdmission(h) ==
  identify_ards_onset_corrected(h, bilateral_infiltrates_df, vent_processed, base_cohort)

C28_FunctionsAgree ==
  BerlinApplied =>
     \A h \in HadmIds \cup {c.hadm_id : c \in Range(base_cohort)} :
        LET vectorized == {a \in Range(ards_df) : a.hadm_id = h}
        IN  /\ (PerAdmission(h) = <<>>) = (vectorized = {})
            /\ \A a \in vectorized :
                  /\ Len(PerAdmission(h)) = 1
                  /\ a.ards_onset_time = PerAdmission(h)[1].ards_onset_time
                  /\ a.initial_pf_ratio = PerAdmission(h)[1].initial_pf_ratio
                  /\ a.ards_severity = PerAdmission(h)[1].ards_severity

\* infiltrates documented at admission, ratio 200 fifty minutes later and
\* ratio 250 at the end of the week: both functions report the onset at
\* minute 20050, moderate
C28_Witness ==
  /\ BerlinApplied
  /\ radiology = <<[hadm_id |-> 1, charttime |-> 20000, text |-> "Bilateral opacities."]>>
  /\ {p.charttime : p \in {x \in vent_processed : ~IsNaN(x.pf_ratio)}} = {20050, 30080}
  /\ \E a \in Range(ards_df) :
        /\ a.hadm_id = 1 /\ a.ards_onset_time = 20050 /\ a.ards_severity = "moderate"
        /\ PerAdmission(1) # <<>>
        /\ PerAdmission(1)[1].ards_onset_time = 20050
        /\ PerAdmission(1)[1].ards_severity = "moderate"

-----------------------------------------------------------------------------
\* C29: in the Berlin notebook, at an (admission, timestamp) where a P/F
\* ratio is directly charted the row carries a charted value unchanged and no
\* quotient replaces it; at every other key the row has a P/F ratio iff a
\* PaO2 and an FiO2 are both charted there and the FiO2 is > 0, and the ratio
\* then equals PaO2 / FiO2.
\* the non-null extracted readings of the given items at (h, t)
ExtractedAt(h, t, items) ==
  {e \in Range(vent_df) :
     /\ e.hadm_id = h /\ e.charttime = t /\ e.itemid \in items /\ ~IsNaN(e.valuenum)}

BerlinProcessed == nb = "ards_berlin" /\ pc \notin {"radiology", "extract", "process"}

C29_ChartedRatioKept ==
  BerlinProcessed =>
    \A p \in vent_processed :
       LET ratios == ExtractedAt(p.hadm_id, p.charttime, {223834})
           oxygen == ExtractedAt(p.hadm_id, p.charttime, {220224, 224689})
           inspired == ExtractedAt(p.hadm_id, p.charttime, {220210, 223835, 224698})
       IN  IF ratios # {}
           THEN \E e \in ratios : p.pf_ratio = e.valuenum
           ELSE /\ (~IsNaN(p.pf_ratio)) =
                     (oxygen # {} /\ inspired # {} /\ FGt(p.fio2, F(0)))
                /\ (~IsNaN(p.pf_ratio)) =>
                     \E n \in oxygen, d \in inspired :
                        /\ p.pao2 = n.valuenum /\ p.fio2 = BerlinFraction(d)
                        /\ IsQuotient(p.pf_ratio, n.valuenum, BerlinFraction(d))

\* P/F 250 is charted at minute 10 together with PaO2 80 and FiO2 40 %, whose
\* quotient would be 200: the row keeps 250
C29_Witness ==
  /\ BerlinProcessed
  /\ \E p \in vent_processed :
        /\ p.hadm_id = 1 /\ p.charttime = 10
        /\ ExtractedAt(1, 10, {223834}) # {}
        /\ p.pf_ratio = F(250) /\ p.pao2 = F(80)
        /\ ~IsNaN(p.fio2) /\ FGt(p.fio2, F(0))
        /\ ~IsQuotient(p.pf_ratio, p.pao2, p.fio2)

-----------------------------------------------------------------------------
\* C30: every row of the saved base cohort has excluded_hf = false and
\* excluded_pregnancy = false: no admission of the heart-failure set or of
\* the pregnancy set reaches the final cohort.
CohortSaved == nb = "cohort_optimized" /\ pc = "done"

C30_FlagsNeverTrue ==
  CohortSaved =>
    \A r \in Range(final_cohort) :
       /\ r.excluded_hf = FALSE
       /\ r.excluded_pregnancy = FALSE
       /\ r.hadm_id \notin hf_admissions \cup pregnancy_admissions

\* admission 1 carries a heart-failure code and is excluded; the saved cohort
\* holds the rows of admission 2, both flags false
C30_Witness ==
  /\ CohortSaved
  /\ 1 \in hf_admissions
  /\ final_cohort # <<>>
  /\ \A r \in Range(final_cohort) :
        r.hadm_id = 2 /\ r.excluded_hf = FALSE /\ r.excluded_pregnancy = FALSE

====
